---- MODULE Spec2Model ----
(***************************************************************************)
(* Model of the MRR / cohort computation of                                *)
(* src/scripts/stripe_to_bigquery.py and of the scenario generator of      *)
(* src/scripts/generate_test_data.py.                                      *)
(*                                                                         *)
(* Calendar encoding.  A DATE is the integer  month_ordinal * 32 + day     *)
(* with month_ordinal = year * 12 + (month - 1) and day in 1..31, which    *)
(* orders dates as the calendar does.  A TIMESTAMP is  date * 24 + hour.   *)
(* An SQL NULL / Python None is the empty tuple, a present value v is <<v>>.*)
(* A float that is the result of a division is the reduced fraction        *)
(* <<numerator, denominator>>.                                             *)
(***************************************************************************)
EXTENDS Integers, Sequences, FiniteSets, TLC

VARIABLES
    subscriptions,    \* rows of the `subscriptions` table
    today,            \* CURRENT_DATE()
    pc,               \* position in run_full_pipeline
    mrr_records,      \* calculate_mrr_metrics: the list mrr_records
    mrr_summary,      \* rows of the `mrr_monthly_summary` table
    cohort_records,   \* calculate_cohort_analysis: the list cohort_records
    cohort_analysis   \* rows of the `cohort_analysis` table

pipeVars == <<subscriptions, today, pc, mrr_records, mrr_summary,
              cohort_records, cohort_analysis>>

VARIABLES
    num_customers,          \* generate_customer_scenarios: the parameter
    acquisition_by_month,   \* the CUSTOMER_ACQUISITION_BY_MONTH in force
    cancellation_schedule,  \* the CANCELLATION_SCHEDULE in force
    past_due_schedule,      \* the PAST_DUE_SCHEDULE in force
    plan_draws,             \* the outcomes of random.choices(plans, ...)
    gen_pc,                 \* position in generate_customer_scenarios
    month_pos,              \* number of acquisition months begun
    i,                      \* loop counter within the acquisition month
    month_cancels,          \* cancel months left for the acquisition month
    month_past_dues,        \* past-due months left for the acquisition month
    customer_index,
    scenarios

genVars == <<num_customers, acquisition_by_month, cancellation_schedule,
             past_due_schedule, plan_draws, gen_pc, month_pos, i, month_cancels,
             month_past_dues, customer_index, scenarios>>

VARIABLES
    retry_pc,       \* retry_with_exponential_backoff: position in wrapper
    retries,        \* the counter `retries`
    outcomes,       \* what each invocation of func did, in order
    waits,          \* the argument of each time.sleep, in order
    last_error      \* the exception the wrapper raised

retryVars == <<retry_pc, retries, outcomes, waits, last_error>>

VARIABLES
    sim_pc,             \* position in main of generate_test_data.py
    test_clocks,        \* create_test_clocks_by_month: month -> list of clocks
    stripe_clocks,      \* the test clocks as Stripe holds them
    created_data,       \* create_customers_and_subscriptions: created_data
    create_month,       \* its loop variable `month`
    create_index,       \* its loop variable `i`
    creations,          \* what the Stripe calls of each iteration did
    clock_tasks,        \* advance_test_clocks_parallel: clock_tasks
    max_workers,
    workers,            \* one advance_single_clock_worker call per task
    invoices_generated, \* advance_test_clocks_parallel: invoices_generated
    total_canceled,
    completed,
    collected,          \* the futures as_completed has yielded, in order
    task_errors         \* the futures whose result() raised

simVars == <<sim_pc, test_clocks, stripe_clocks, created_data, create_month,
             create_index, creations, clock_tasks, max_workers, workers,
             invoices_generated, total_canceled, completed, collected,
             task_errors>>

VARIABLES
    stripe_subscriptions,  \* the subscriptions Stripe returns
    extraction_time,       \* extract_stripe_data: extraction_time
    extracted_data,        \* the dict extract_stripe_data returns
    tables,                \* rows of the customers, invoices, prices, products tables
    load_jobs,             \* the load jobs issued, in order, and how they ended
    failed_steps           \* the steps of run_full_pipeline that caught an error

runVars == <<stripe_subscriptions, extraction_time, extracted_data, tables,
             load_jobs, failed_steps>>

restVars == <<retryVars, simVars, runVars>>

vars == <<pipeVars, genVars, restVars>>

\* the retry wrapper not running
RetryIdle ==
    /\ retry_pc = "idle"
    /\ retries = 0
    /\ outcomes = <<>>
    /\ waits = <<>>
    /\ last_error = <<>>

\* main of generate_test_data.py not running
SimIdle ==
    /\ sim_pc = "idle"
    /\ test_clocks = <<>>
    /\ stripe_clocks = <<>>
    /\ created_data = <<>>
    /\ create_month = 0
    /\ create_index = 0
    /\ creations = <<>>
    /\ clock_tasks = <<>>
    /\ max_workers = 1
    /\ workers = <<>>
    /\ invoices_generated = 0
    /\ total_canceled = <<>>
    /\ completed = 0
    /\ collected = <<>>
    /\ task_errors = <<>>

\* nothing extracted from Stripe
RunIdle ==
    /\ stripe_subscriptions = <<>>
    /\ extraction_time = 0
    /\ extracted_data = <<>>
    /\ tables = <<>>
    /\ load_jobs = <<>>
    /\ failed_steps = {}

RestIdle == RetryIdle /\ SimIdle /\ RunIdle

----------------------------------------------------------------------------
(* Bounds of the model *)

\* largest number of rows of the subscriptions table in the general snapshots
MaxSubs == 2
\* number of customers of the single-cohort snapshots
CohortSize == 3
\* the random plan draws repeat with this period
PlanPeriod == 2
\* small configurations of the generator: acquisition months, customers per
\* month, entries per event month of a schedule
GenMonths == 2
MaxQuota == 2
MaxEntries == 1

----------------------------------------------------------------------------
(* Values *)

NULL == <<>>

Some(v) == <<v>>

Val(x) == x[1]

RECURSIVE GCD(_, _)
GCD(a, b) == IF b = 0 THEN a ELSE GCD(b, a % b)

Abs(n) == IF n < 0 THEN -n ELSE n

\* the float n / d (d > 0), as a reduced fraction
Frac(n, d) ==
    LET g == GCD(Abs(n), d)
    IN  <<n \div g, d \div g>>

Zero == Frac(0, 1)

MkDate(year, month, day) == (year * 12 + (month - 1)) * 32 + day

MkTimestamp(date, hour) == date * 24 + hour

----------------------------------------------------------------------------
(* SQL functions used by the two queries *)

\* DATE(timestamp)
DATE(ts) == ts \div 24

\* DATE_TRUNC(date, MONTH)
DATE_TRUNC_MONTH(d) == (d \div 32) * 32 + 1

\* DATE_ADD(month_start, INTERVAL 1 MONTH), applied to first-of-month dates only
DATE_ADD_MONTH(d) == d + 32

\* DATE_DIFF(a, b, MONTH)
DATE_DIFF_MONTH(a, b) == (a \div 32) - (b \div 32)

\* GENERATE_DATE_ARRAY(lo, hi, INTERVAL 1 MONTH) for first-of-month lo, hi
GENERATE_DATE_ARRAY(lo, hi) ==
    IF hi < lo THEN <<>>
    ELSE [k \in 1..((hi - lo) \div 32 + 1) |-> lo + 32 * (k - 1)]

\* SAFE_DIVIDE(a, b): NULL instead of a division error
SAFE_DIVIDE(a, b) == IF b = 0 THEN NULL ELSE Some(Frac(a, b))

RECURSIVE SumTo(_, _)
SumTo(f, n) == IF n = 0 THEN 0 ELSE f[n] + SumTo(f, n - 1)

\* SUM(CASE WHEN cond THEN mrr_amount ELSE 0 END) over the rows, `keep` the
\* indices of the rows that satisfy cond
SumAmount(rows, keep) ==
    SumTo([k \in 1..Len(rows) |-> IF k \in keep THEN rows[k].mrr_amount ELSE 0],
          Len(rows))

\* COUNT(DISTINCT CASE WHEN cond THEN customer_id END) over the rows
CountDistinctCustomers(rows, keep) ==
    Cardinality({rows[k].customer_id : k \in keep})

Min(S) == CHOOSE x \in S : \A y \in S : x <= y

----------------------------------------------------------------------------
(* calculate_mrr_metrics: the query *)

\* date_range.min_date: MIN(DATE(start_date)), NULL for an empty table
MinStartDate(rows) ==
    IF rows = <<>> THEN NULL
    ELSE Some(Min({DATE(rows[k].start_date) : k \in 1..Len(rows)}))

\* the CTE months: one first-of-month date per month, earliest start to today
Months(min_date, max_date) ==
    IF min_date = NULL THEN <<>>
    ELSE GENERATE_DATE_ARRAY(DATE_TRUNC_MONTH(Val(min_date)), DATE_TRUNC_MONTH(max_date))

\* a plausible slip: a cancellation exactly at the month's end no longer counts
was_active_in_month_strict(s, month_start) ==
    /\ DATE(s.start_date) <= DATE_ADD_MONTH(month_start)
    /\ \/ s.canceled_at = NULL
       \/ DATE(Val(s.canceled_at)) > DATE_ADD_MONTH(month_start)

\* a plausible slip: a subscription counts up to the month of its cancellation
was_active_in_month_of_cancel(s, month_start) ==
    /\ DATE(s.start_date) <= DATE_ADD_MONTH(month_start)
    /\ \/ s.canceled_at = NULL
       \/ DATE(Val(s.canceled_at)) >= month_start

\* the column was_active_in_month of the CTE monthly_subscriptions
was_active_in_month(s, month_start) ==
    /\ DATE(s.start_date) <= DATE_ADD_MONTH(month_start)
    /\ \/ s.canceled_at = NULL
       \/ DATE(Val(s.canceled_at)) >= DATE_ADD_MONTH(month_start)

\* the CASE of new_customers / new_mrr
started_in_month(s, month_start) ==
    /\ DATE(s.start_date) >= month_start
    /\ DATE(s.start_date) < DATE_ADD_MONTH(month_start)

\* a plausible slip: a cancellation at the month's end counts for the month
canceled_in_month_through_end(s, month_start) ==
    /\ s.canceled_at # NULL
    /\ DATE(Val(s.canceled_at)) >= month_start
    /\ DATE(Val(s.canceled_at)) <= DATE_ADD_MONTH(month_start)

\* the CASE of churned_customers / churned_mrr
canceled_in_month(s, month_start) ==
    /\ s.canceled_at # NULL
    /\ DATE(Val(s.canceled_at)) >= month_start
    /\ DATE(Val(s.canceled_at)) < DATE_ADD_MONTH(month_start)

\* one row of the CTE monthly_metrics (GROUP BY month)
monthly_metrics(rows, m) ==
    LET Active  == {k \in 1..Len(rows) : was_active_in_month(rows[k], m)}
        Started == {k \in 1..Len(rows) : started_in_month(rows[k], m)}
        Churned == {k \in 1..Len(rows) : canceled_in_month(rows[k], m)}
    IN  [ month_start_date  |-> m,
          total_mrr         |-> SumAmount(rows, Active),
          active_customers  |-> CountDistinctCustomers(rows, Active),
          new_customers     |-> CountDistinctCustomers(rows, Started),
          churned_customers |-> CountDistinctCustomers(rows, Churned),
          new_mrr           |-> SumAmount(rows, Started),
          churned_mrr       |-> SumAmount(rows, Churned) ]

\* a plausible slip: the final SELECT without its WHERE clause
is_emitted_all(r) == TRUE

\* a plausible slip: the WHERE clause without its test of churned_customers
is_emitted_unless_churn_only(r) ==
    r.active_customers > 0 \/ r.new_customers > 0

\* a plausible slip: the WHERE clause without its test of active_customers
is_emitted_on_change_only(r) ==
    r.new_customers > 0 \/ r.churned_customers > 0

\* the WHERE clause of the final SELECT
is_emitted(r) ==
    r.active_customers > 0 \/ r.new_customers > 0 \/ r.churned_customers > 0

\* a plausible slip: the division without its zero guard
safe_ratio_unguarded(a, b) == IF b = 0 THEN Some(<<a, 0>>) ELSE Some(Frac(a, b))

\* SAFE_DIVIDE as the final SELECT uses it
safe_ratio(a, b) == SAFE_DIVIDE(a, b)

\* the rows the query returns, ordered by month_start_date; LAG runs over them
mrr_query(rows, max_date) ==
    LET months  == Months(MinStartDate(rows), max_date)
        metrics == [k \in 1..Len(months) |-> monthly_metrics(rows, months[k])]
        kept    == SelectSeq(metrics, is_emitted)
    IN  [k \in 1..Len(kept) |->
            [ month_start_date  |-> kept[k].month_start_date,
              total_mrr         |-> kept[k].total_mrr,
              new_mrr           |-> kept[k].new_mrr,
              expansion_mrr     |-> 0,
              contraction_mrr   |-> 0,
              churned_mrr       |-> kept[k].churned_mrr,
              net_new_mrr       |-> kept[k].new_mrr - kept[k].churned_mrr,
              active_customers  |-> kept[k].active_customers,
              new_customers     |-> kept[k].new_customers,
              churned_customers |-> kept[k].churned_customers,
              average_revenue_per_user |->
                  safe_ratio(kept[k].total_mrr, kept[k].active_customers),
              churn_rate        |->
                  safe_ratio(kept[k].churned_customers, kept[k].active_customers),
              prev_month_mrr    |->
                  IF k = 1 THEN NULL ELSE Some(kept[k - 1].total_mrr) ]]

\* Python  float(x or 0)  of a SAFE_DIVIDE result
OrZero(x) == IF x = NULL THEN Zero ELSE Val(x)

\* a plausible slip: the change is divided by the month's own total
growth_rate_of_total(row) ==
    IF row.prev_month_mrr # NULL /\ Val(row.prev_month_mrr) > 0 /\ row.total_mrr > 0
    THEN Frac((row.total_mrr - Val(row.prev_month_mrr)) * 100, row.total_mrr)
    ELSE Zero

\* the growth rate the loop over the result rows computes
growth_rate(row) ==
    IF row.prev_month_mrr # NULL /\ Val(row.prev_month_mrr) > 0
    THEN Frac((row.total_mrr - Val(row.prev_month_mrr)) * 100, Val(row.prev_month_mrr))
    ELSE Zero

\* the list mrr_records built from the result rows
to_mrr_records(result) ==
    [k \in 1..Len(result) |->
        [ month_start_date  |-> result[k].month_start_date,
          total_mrr         |-> result[k].total_mrr,
          new_mrr           |-> result[k].new_mrr,
          expansion_mrr     |-> result[k].expansion_mrr,
          contraction_mrr   |-> result[k].contraction_mrr,
          churned_mrr       |-> result[k].churned_mrr,
          net_new_mrr       |-> result[k].net_new_mrr,
          active_customers  |-> result[k].active_customers,
          new_customers     |-> result[k].new_customers,
          churned_customers |-> result[k].churned_customers,
          average_revenue_per_user |-> OrZero(result[k].average_revenue_per_user),
          churn_rate        |-> OrZero(result[k].churn_rate),
          growth_rate       |-> growth_rate(result[k]) ]]

\* load_data_to_bigquery for one table: nothing is loaded for an empty record
\* list; a load job that succeeds replaces the table (WRITE_TRUNCATE), one that
\* fails is caught and leaves it as it was
load_data_to_bigquery(table, records, job_ok) ==
    IF records = <<>> THEN table
    ELSE IF job_ok THEN records ELSE table

----------------------------------------------------------------------------
(* calculate_cohort_analysis: the query *)

CustomerIds(rows) == {rows[k].customer_id : k \in 1..Len(rows)}

RowsOf(rows, c) == {k \in 1..Len(rows) : rows[k].customer_id = c}

\* the CTE customer_cohorts: DATE_TRUNC(MIN(DATE(start_date)), MONTH) per customer
cohort_start_date(rows, c) ==
    DATE_TRUNC_MONTH(Min({DATE(rows[k].start_date) : k \in RowsOf(rows, c)}))

\* the customers of customer_cohorts whose cohort is the given one
customers_of_cohort(rows, cohort) ==
    {c \in CustomerIds(rows) : cohort_start_date(rows, c) = cohort}

\* date_range.min_date of the cohort query: MIN(cohort_start_date)
MinCohortDate(rows) ==
    IF rows = <<>> THEN NULL
    ELSE Some(Min({cohort_start_date(rows, c) : c \in CustomerIds(rows)}))

\* a plausible slip: only subscriptions started before the month are looked at
cohort_sub_active_started_before(s, month_start) ==
    /\ DATE(s.start_date) < month_start
    /\ \/ s.canceled_at = NULL
       \/ DATE(Val(s.canceled_at)) >= month_start

\* a plausible slip: the activity test of calculate_mrr_metrics used here
cohort_sub_active_to_month_end(s, month_start) ==
    /\ DATE(s.start_date) <= DATE_ADD_MONTH(month_start)
    /\ \/ s.canceled_at = NULL
       \/ DATE(Val(s.canceled_at)) >= DATE_ADD_MONTH(month_start)

\* the WHERE clause of the EXISTS subquery of cohort_activity, for one subscription
cohort_sub_active(s, month_start) ==
    /\ DATE(s.start_date) <= DATE_ADD_MONTH(month_start)
    /\ \/ s.canceled_at = NULL
       \/ DATE(Val(s.canceled_at)) >= month_start

\* the column is_active of the CTE cohort_activity
is_active(rows, c, month_start) ==
    IF \E k \in RowsOf(rows, c) : cohort_sub_active(rows[k], month_start)
    THEN 1 ELSE 0

\* one row of the final SELECT: a cohort and one of its months
cohort_row(rows, cohort, month_start) ==
    LET members  == customers_of_cohort(rows, cohort)
        \* SUM(is_active) over the cohort's customers, each of them one row
        n_active == Cardinality({c \in members : is_active(rows, c, month_start) = 1})
    IN  [ cohort_start_date   |-> cohort,
          period_number       |-> DATE_DIFF_MONTH(month_start, cohort),
          customers_in_cohort |-> Cardinality(members),
          active_customers    |-> n_active,
          retention_rate      |-> SAFE_DIVIDE(n_active, Cardinality(members)),
          cohort_revenue      |-> 0,
          revenue_per_customer |-> 0 ]

\* a plausible slip: the window cut one period late
period_kept_through_13(period_number) == period_number <= 13

\* WHERE period_number <= 12
period_kept(period_number) == period_number <= 12

RECURSIVE SortedSeq(_)
SortedSeq(S) ==
    IF S = {} THEN <<>>
    ELSE LET m == Min(S) IN <<m>> \o SortedSeq(S \ {m})

RECURSIVE Concat(_, _)
Concat(f, n) == IF n = 0 THEN <<>> ELSE Concat(f, n - 1) \o f[n]

\* the rows the query returns, ORDER BY cohort_start_date, period_number
cohort_query(rows, max_date) ==
    LET months  == Months(MinCohortDate(rows), max_date)
        cohorts == SortedSeq({cohort_start_date(rows, c) : c \in CustomerIds(rows)})
        Kept(m, cohort) ==
            m >= cohort /\ period_kept(DATE_DIFF_MONTH(m, cohort))
        RowsFor(cohort) ==
            LET ms == SelectSeq(months, LAMBDA m : Kept(m, cohort))
            IN  [k \in 1..Len(ms) |-> cohort_row(rows, cohort, ms[k])]
    IN  Concat([n \in 1..Len(cohorts) |-> RowsFor(cohorts[n])], Len(cohorts))

\* the list cohort_records built from the result rows
to_cohort_records(result) ==
    [k \in 1..Len(result) |->
        [ cohort_start_date   |-> result[k].cohort_start_date,
          period_number       |-> result[k].period_number,
          customers_in_cohort |-> result[k].customers_in_cohort,
          active_customers    |-> result[k].active_customers,
          retention_rate      |-> OrZero(result[k].retention_rate),
          cohort_revenue      |-> result[k].cohort_revenue,
          revenue_per_customer |-> result[k].revenue_per_customer ]]

----------------------------------------------------------------------------
(* The snapshots the computation is run on *)

Jan2024 == MkDate(2024, 1, 1)

\* first day of the k-th month after January 2024
MonthStart(k) == Jan2024 + 32 * k

\* the months that hold subscription events: January, February, March 2024
EventMonths == {0, 1, 2}

\* (day, hour) at which a subscription starts: on the first of a month at
\* midnight or at noon, or in the middle of the month
StartTimes == {<<1, 0>>, <<1, 12>>, <<15, 0>>}

\* (day, hour) at which a subscription is canceled: exactly at a month boundary
\* or inside the month
CancelTimes == {<<1, 0>>, <<10, 12>>}

Timestamps(k, times) ==
    {MkTimestamp(MonthStart(k) + (t[1] - 1), t[2]) : t \in times}

StartTimestamps == UNION {Timestamps(k, StartTimes) : k \in EventMonths}

CancelTimestamps == UNION {Timestamps(k, CancelTimes) : k \in EventMonths}

\* a subscription never ends before it starts
Lifetimes ==
    {p \in StartTimestamps \X ({NULL} \cup {Some(t) : t \in CancelTimestamps}) :
        p[2] = NULL \/ Val(p[2]) >= p[1]}

\* the rows of a table carry no order: the snapshots list them by start and
\* cancellation time
LifeLeq(a, b) ==
    LET CancelKey(l) == IF l[2] = NULL THEN 0 ELSE Val(l[2])
    IN  a[1] < b[1] \/ (a[1] = b[1] /\ CancelKey(a) <= CancelKey(b))

\* monthly amounts, in dollars, of the four price tiers; customer c is on tier c
PlanAmounts == <<79, 29, 149, 299>>

AmountOf(customer) == PlanAmounts[((customer - 1) % 4) + 1]

SubRow(id, customer, life) ==
    [ subscription_id |-> id, customer_id |-> customer,
      mrr_amount |-> AmountOf(customer),
      start_date |-> life[1], canceled_at |-> life[2] ]

\* the ways to list n subscriptions drawn from the given lifetimes
RECURSIVE SortedLives(_, _)
SortedLives(lives, n) ==
    IF n = 0 THEN {<<>>}
    ELSE UNION {
            {Append(s, l) : l \in {x \in lives : s = <<>> \/ LifeLeq(s[Len(s)], x)}}
            : s \in SortedLives(lives, n - 1) }

\* customer ids are opaque: the k-th row belongs to one of the customers seen
\* before it or to the next new one
RECURSIVE CustomerAssignments(_)
CustomerAssignments(n) ==
    IF n = 0 THEN {<<>>}
    ELSE UNION {
            {Append(c, v) : v \in 1..(Cardinality({c[j] : j \in 1..Len(c)}) + 1)}
            : c \in CustomerAssignments(n - 1) }

\* a table of 1..MaxSubs rows
IsGeneralTable(table) ==
    \E n \in 1..MaxSubs :
        \E c \in CustomerAssignments(n) : \E l \in SortedLives(Lifetimes, n) :
            table = [k \in 1..n |-> SubRow(k, c[k], l[k])]

\* a table of one cohort: CohortSize customers on the same tier with one
\* subscription each, all started in January 2024, each never canceled or
\* canceled in March 2024
IsCohortTable(table) ==
    LET lives == Timestamps(0, StartTimes) \X
                 ({NULL} \cup {Some(t) : t \in Timestamps(2, CancelTimes)})
    IN  \E l \in SortedLives(lives, CohortSize) :
            table = [k \in 1..CohortSize |->
                        [SubRow(k, k, l[k]) EXCEPT !.mrr_amount = 79]]

\* CURRENT_DATE(): in the last month with events or in the month after it
Todays == {MkDate(2024, 3, 20), MkDate(2024, 4, 5)}

----------------------------------------------------------------------------
(* generate_customer_scenarios *)

\* a dict is the sequence of its <<key, value>> items, in insertion order
NUM_CUSTOMERS == 100

CUSTOMER_ACQUISITION_BY_MONTH ==
    << <<0, 8>>, <<1, 15>>, <<2, 25>>, <<3, 12>>, <<4, 18>>, <<5, 22>> >>

CANCELLATION_SCHEDULE ==
    << <<1, <<0, 0>>>>,
       <<2, <<0, 1, 1>>>>,
       <<3, <<1, 1, 2, 2, 2>>>>,
       <<4, <<2, 2, 3, 3, 3>>>>,
       <<5, <<3, 4, 4, 4, 4>>>> >>

PAST_DUE_SCHEDULE ==
    << <<2, <<1, 1>>>>,
       <<3, <<0, 2, 2>>>>,
       <<4, <<2, 3, 3>>>>,
       <<5, <<4, 4>>>> >>

\* plan_weights.keys()
Plans == <<"starter", "professional", "business", "enterprise">>

\* the list of (acquisition_month, event_month) built from a schedule
schedule_pairs(schedule) ==
    Concat([k \in 1..Len(schedule) |->
                [j \in 1..Len(schedule[k][2]) |-> <<schedule[k][2][j], schedule[k][1]>>]],
           Len(schedule))

\* a plausible slip: the pairs are read as (event_month, acquisition_month)
by_acq_swapped(pairs, acq_month) ==
    LET mine == SelectSeq(pairs, LAMBDA p : p[2] = acq_month)
    IN  [k \in 1..Len(mine) |-> mine[k][1]]

\* cancel_by_acq.get(acq_month, []) / pd_by_acq.get(acq_month, []): the event
\* months of the pairs of the acquisition month, in list order
by_acq(pairs, acq_month) ==
    LET mine == SelectSeq(pairs, LAMBDA p : p[1] = acq_month)
    IN  [k \in 1..Len(mine) |-> mine[k][2]]

\* random.choices(plans, weights=plan_probs)[0] for the customer being generated
DrawPlan == plan_draws[(customer_index % PlanPeriod) + 1]

\* the scenario appended by one iteration of the inner loop (name and email,
\* random strings read by nothing else, are left out)
scenario(acq_month) ==
    LET assigned ==
            IF month_cancels # <<>>
            THEN [ status |-> "canceled",
                   cancel_after_months |-> Some(Head(month_cancels) - acq_month),
                   past_due_month |-> NULL ]
            ELSE IF month_past_dues # <<>>
            THEN [ status |-> "past_due",
                   cancel_after_months |-> NULL,
                   past_due_month |-> Some(Head(month_past_dues)) ]
            ELSE [ status |-> "active",
                   cancel_after_months |-> NULL,
                   past_due_month |-> NULL ]
    IN  [ plan |-> DrawPlan,
          acquisition_month |-> acq_month,
          status |-> assigned.status,
          cancel_after_months |-> assigned.cancel_after_months,
          past_due_month |-> assigned.past_due_month,
          customer_index |-> customer_index ]

\* for acq_month, num_in_month in CUSTOMER_ACQUISITION_BY_MONTH.items(): the
\* lists of the next acquisition month are copied
BeginAcquisitionMonth ==
    /\ gen_pc = "months"
    /\ month_pos < Len(acquisition_by_month)
    /\ month_pos' = month_pos + 1
    /\ LET acq_month == acquisition_by_month[month_pos + 1][1]
       IN  /\ month_cancels' = by_acq(schedule_pairs(cancellation_schedule), acq_month)
           /\ month_past_dues' = by_acq(schedule_pairs(past_due_schedule), acq_month)
    /\ i' = 0
    /\ gen_pc' = "customers"
    /\ UNCHANGED <<num_customers, acquisition_by_month, cancellation_schedule,
                   past_due_schedule, plan_draws, customer_index, scenarios>>
    /\ UNCHANGED <<pipeVars, restVars>>

\* one iteration of  for i in range(num_in_month)
GenerateCustomer ==
    /\ gen_pc = "customers"
    /\ i < acquisition_by_month[month_pos][2]
    /\ scenarios' = Append(scenarios, scenario(acquisition_by_month[month_pos][1]))
    /\ month_cancels' =
           IF month_cancels # <<>> THEN Tail(month_cancels) ELSE month_cancels
    /\ month_past_dues' =
           IF month_cancels = <<>> /\ month_past_dues # <<>>
           THEN Tail(month_past_dues) ELSE month_past_dues
    /\ customer_index' = customer_index + 1
    /\ i' = i + 1
    /\ UNCHANGED <<num_customers, acquisition_by_month, cancellation_schedule,
                   past_due_schedule, plan_draws, gen_pc, month_pos>>
    /\ UNCHANGED <<pipeVars, restVars>>

\* the inner loop is exhausted
EndAcquisitionMonth ==
    /\ gen_pc = "customers"
    /\ i = acquisition_by_month[month_pos][2]
    /\ gen_pc' = "months"
    /\ UNCHANGED <<num_customers, acquisition_by_month, cancellation_schedule,
                   past_due_schedule, plan_draws, month_pos, i, month_cancels,
                   month_past_dues, customer_index, scenarios>>
    /\ UNCHANGED <<pipeVars, restVars>>

\* return scenarios
ReturnScenarios ==
    /\ gen_pc = "months"
    /\ month_pos = Len(acquisition_by_month)
    /\ gen_pc' = "done"
    /\ UNCHANGED <<num_customers, acquisition_by_month, cancellation_schedule,
                   past_due_schedule, plan_draws, month_pos, i, month_cancels,
                   month_past_dues, customer_index, scenarios>>
    /\ UNCHANGED <<pipeVars, restVars>>

\* the generator at its first statement, under a given configuration
GenAtEntry ==
    /\ plan_draws \in [1..PlanPeriod -> {Plans[k] : k \in 1..Len(Plans)}]
    /\ gen_pc = "months"
    /\ month_pos = 0
    /\ i = 0
    /\ month_cancels = <<>>
    /\ month_past_dues = <<>>
    /\ customer_index = 0
    /\ scenarios = <<>>

\* the generator not running
GenIdle ==
    /\ num_customers = 0
    /\ acquisition_by_month = <<>>
    /\ cancellation_schedule = <<>>
    /\ past_due_schedule = <<>>
    /\ plan_draws = <<>>
    /\ gen_pc = "idle"
    /\ month_pos = 0
    /\ i = 0
    /\ month_cancels = <<>>
    /\ month_past_dues = <<>>
    /\ customer_index = 0
    /\ scenarios = <<>>

\* the values generate_customer_scenarios is called with
NumCustomersInputs == {60, NUM_CUSTOMERS}

\* generate_customer_scenarios(num_customers, prices) under the module's
\* configuration
InitGen ==
    /\ num_customers \in NumCustomersInputs
    /\ acquisition_by_month = CUSTOMER_ACQUISITION_BY_MONTH
    /\ cancellation_schedule = CANCELLATION_SCHEDULE
    /\ past_due_schedule = PAST_DUE_SCHEDULE
    /\ GenAtEntry

\* a schedule over the acquisition months 0..GenMonths-1: per event month up to
\* MaxEntries originating acquisition months
SmallSchedules ==
    LET lists == UNION {[1..n -> 0..(GenMonths - 1)] : n \in 0..MaxEntries}
    IN  {[k \in 1..GenMonths |-> <<k - 1, l[k]>>] : l \in [1..GenMonths -> lists]}

SmallAcquisitions ==
    {[k \in 1..GenMonths |-> <<k - 1, q[k]>>] : q \in [1..GenMonths -> 0..MaxQuota]}

\* the generator under any small configuration, called with the configured total
InitGenAny ==
    /\ acquisition_by_month \in SmallAcquisitions
    /\ cancellation_schedule \in SmallSchedules
    /\ past_due_schedule \in SmallSchedules
    /\ num_customers =
           SumTo([k \in 1..GenMonths |-> acquisition_by_month[k][2]], GenMonths)
    /\ GenAtEntry

NextGen ==
    \/ BeginAcquisitionMonth
    \/ GenerateCustomer
    \/ EndAcquisitionMonth
    \/ ReturnScenarios

----------------------------------------------------------------------------
(* run_full_pipeline, from the loaded subscriptions table on *)

InitPipe ==
    /\ IsGeneralTable(subscriptions) \/ IsCohortTable(subscriptions)
    /\ today \in Todays
    /\ pc = "loaded"
    /\ mrr_records = <<>>
    /\ mrr_summary = <<>>
    /\ cohort_records = <<>>
    /\ cohort_analysis = <<>>

\* the pipeline not running
PipeIdle ==
    /\ subscriptions = <<>>
    /\ today = MkDate(2024, 4, 5)
    /\ pc = "idle"
    /\ mrr_records = <<>>
    /\ mrr_summary = <<>>
    /\ cohort_records = <<>>
    /\ cohort_analysis = <<>>

CalculateMrrMetrics ==
    /\ pc = "loaded"
    /\ LET records == to_mrr_records(mrr_query(subscriptions, today))
       IN  /\ mrr_records' = records
           /\ \E job_ok \in BOOLEAN :
                mrr_summary' = load_data_to_bigquery(mrr_summary, records, job_ok)
    /\ pc' = "mrr_done"
    /\ UNCHANGED <<subscriptions, today, cohort_records, cohort_analysis>>
    /\ UNCHANGED <<genVars, restVars>>

CalculateCohortAnalysis ==
    /\ pc = "mrr_done"
    /\ LET records == to_cohort_records(cohort_query(subscriptions, today))
       IN  /\ cohort_records' = records
           /\ \E job_ok \in BOOLEAN :
                cohort_analysis' = load_data_to_bigquery(cohort_analysis, records, job_ok)
    /\ pc' = "cohort_done"
    /\ UNCHANGED <<subscriptions, today, mrr_records, mrr_summary>>
    /\ UNCHANGED <<genVars, restVars>>

Init == InitPipe /\ GenIdle /\ RestIdle

Next == CalculateMrrMetrics \/ CalculateCohortAnalysis

\* the MRR and cohort computation over every snapshot
Spec == Init /\ [][Next]_vars

InitScenarios == PipeIdle /\ InitGen /\ RestIdle

InitScenariosAny == PipeIdle /\ InitGenAny /\ RestIdle

\* the scenario generator under the module's configuration
SpecGen == InitScenarios /\ [][NextGen]_vars

\* the scenario generator under every small configuration
SpecGenAny == InitScenariosAny /\ [][NextGen]_vars

----------------------------------------------------------------------------
(* Claims about the MRR attribution and the cohort retention *)

MrrComputed == pc \in {"mrr_done", "cohort_done"}

CohortComputed == pc = "cohort_done"

Rows == {subscriptions[k] : k \in 1..Len(subscriptions)}

\* the month buckets calculate_mrr_metrics generates for the current table
MrrMonths ==
    LET ms == Months(MinStartDate(subscriptions), today)
    IN  {ms[k] : k \in 1..Len(ms)}

\* the predicate of the specification, on calendar dates, M_end = M_start + 1 month
ActiveInMonth(s, M_start) ==
    LET M_end == M_start + 32
    IN  /\ DATE(s.start_date) <= M_end
        /\ (s.canceled_at = NULL \/ DATE(Val(s.canceled_at)) >= M_end)

CohortMonths ==
    LET ms == Months(MinCohortDate(subscriptions), today)
    IN  {ms[k] : k \in 1..Len(ms)}

\* C2: the cohort engine's per-subscription activity test gives the same answer
\* as was_active_in_month of calculate_mrr_metrics, for every subscription and
\* every month.
C2_SamePredicate ==
    CohortComputed =>
        \A s \in Rows : \A m \in CohortMonths :
            cohort_sub_active(s, m) <=> was_active_in_month(s, m)

\* the row of calculate_mrr_metrics' monthly_metrics for the k-th generated month
Bucket(k) ==
    monthly_metrics(subscriptions, Months(MinStartDate(subscriptions), today)[k])

\* C3: for any two consecutive month buckets M, M+1 of the generated sequence,
\* total_mrr(M+1) = total_mrr(M) + new_mrr(M+1) - churned_mrr(M+1).
C3_Conservation ==
    MrrComputed =>
        \A k \in 1..(Len(Months(MinStartDate(subscriptions), today)) - 1) :
            Bucket(k + 1).total_mrr =
                Bucket(k).total_mrr + Bucket(k + 1).new_mrr - Bucket(k + 1).churned_mrr

\* the cohort_records row of a cohort and a period, as a set of 0 or 1 rows
CohortRow(cohort, p) ==
    {cohort_records[k] : k \in {j \in 1..Len(cohort_records) :
        /\ cohort_records[j].cohort_start_date = cohort
        /\ cohort_records[j].period_number = p}}

March2024 == MkDate(2024, 3, 1)

\* three customers, one subscription each, all started in January 2024, exactly
\* one of them canceled, in March 2024
ThreeJanuaryOneCanceledInMarch ==
    /\ Len(subscriptions) = 3
    /\ Cardinality(CustomerIds(subscriptions)) = 3
    /\ \A s \in Rows : DATE_TRUNC_MONTH(DATE(s.start_date)) = Jan2024
    /\ Cardinality({s \in Rows : s.canceled_at # NULL}) = 1
    /\ \A s \in Rows :
        s.canceled_at # NULL => DATE_TRUNC_MONTH(DATE(Val(s.canceled_at))) = March2024

\* C4: for that cohort calculate_cohort_analysis yields retention_rate 1.0 at
\* period 0, 1.0 at period 1 and 2/3 at period 2.
C4_RetentionScenario ==
    (CohortComputed /\ ThreeJanuaryOneCanceledInMarch) =>
        /\ \A r \in CohortRow(Jan2024, 0) : r.retention_rate = Frac(1, 1)
        /\ \A r \in CohortRow(Jan2024, 1) : r.retention_rate = Frac(1, 1)
        /\ \A r \in CohortRow(Jan2024, 2) : r.retention_rate = Frac(2, 3)
        /\ CohortRow(Jan2024, 2) # {}

\* a single subscription started 2024-01-15, canceled 2024-03-10, amount 79
SingleSubscriptionScenario ==
    /\ Len(subscriptions) = 1
    /\ DATE(subscriptions[1].start_date) = MkDate(2024, 1, 15)
    /\ subscriptions[1].canceled_at # NULL
    /\ DATE(Val(subscriptions[1].canceled_at)) = MkDate(2024, 3, 10)
    /\ subscriptions[1].mrr_amount = 79

NoWinBack ==
    \A s, u \in Rows :
        (s.customer_id = u.customer_id /\ u.canceled_at # NULL)
            => s.start_date <= Val(u.canceled_at)

\* C6: for a fixed cohort whose only transition is cancellation,
\* active_customers(period p+1) <= active_customers(period p) for every pair of
\* consecutive computed periods.
C6_CohortMonotone ==
    (CohortComputed /\ NoWinBack) =>
        \A a, b \in 1..Len(cohort_records) :
            (/\ cohort_records[a].cohort_start_date = cohort_records[b].cohort_start_date
             /\ cohort_records[b].period_number = cohort_records[a].period_number + 1)
                => cohort_records[b].active_customers <= cohort_records[a].active_customers

\* C6 witness: a cohort without win-back whose active count drops between two
\* consecutive periods, one of its customers holding two subscriptions
C6_Witness ==
    /\ CohortComputed
    /\ NoWinBack
    /\ Cardinality(CustomerIds(subscriptions)) < Len(subscriptions)
    /\ \E a, b \in 1..Len(cohort_records) :
        /\ cohort_records[a].cohort_start_date = cohort_records[b].cohort_start_date
        /\ cohort_records[b].period_number = cohort_records[a].period_number + 1
        /\ cohort_records[b].active_customers < cohort_records[a].active_customers

\* C7: every emitted month bucket with active_customers = 0 has
\* average_revenue_per_user = 0 and churn_rate = 0, no division error occurring,
\* also when customers churned in the bucket.
C7_ZeroGuard ==
    MrrComputed =>
        \A k \in 1..Len(mrr_records) :
            mrr_records[k].active_customers = 0 =>
                /\ mrr_records[k].average_revenue_per_user = Zero
                /\ mrr_records[k].churn_rate = Zero

\* C7 witness: an emitted bucket in which customers churned and none is active
C7_Witness ==
    /\ MrrComputed
    /\ \E k \in 1..Len(mrr_records) :
        /\ mrr_records[k].active_customers = 0
        /\ mrr_records[k].churned_customers > 0

----------------------------------------------------------------------------
(* Claims about the scenario generator *)

Returned == gen_pc = "done"

CountStatus(status) ==
    Cardinality({k \in 1..Len(scenarios) : scenarios[k].status = status})

\* every canceled or past_due scenario has its event month at or after its
\* acquisition month
EventsFollowAcquisition ==
    \A k \in 1..Len(scenarios) :
        /\ scenarios[k].status = "canceled"
               => Val(scenarios[k].cancel_after_months) >= 0
        /\ scenarios[k].status = "past_due"
               => Val(scenarios[k].past_due_month) >= scenarios[k].acquisition_month

C9_OnePerCustomer ==
    Returned =>
        /\ Len(scenarios) = num_customers
        /\ {scenarios[k].customer_index : k \in 1..Len(scenarios)}
               = 0..(num_customers - 1)

\* C10: for any cancellation or past-due schedule the generator never returns a
\* scenario whose cancel or past-due month precedes its acquisition month.
C10_OrderingEnforced ==
    Returned => EventsFollowAcquisition

----------------------------------------------------------------------------
(* retry_with_exponential_backoff *)

MAX_RETRIES == 5
\* seconds
BASE_DELAY == 1
MAX_DELAY == 60

\* what one invocation of the wrapped function can raise; http_status is
\* NULL where the exception carries none
RateLimitError == [type |-> "RateLimitError", http_status |-> Some(429)]
APIConnectionError == [type |-> "APIConnectionError", http_status |-> NULL]
APIError(status) == [type |-> "APIError", http_status |-> Some(status)]
InvalidRequestError == [type |-> "InvalidRequestError", http_status |-> Some(400)]
\* an invocation that returns
Returns == [type |-> "ok", http_status |-> NULL]

StripeErrors ==
    {RateLimitError, APIConnectionError, APIError(500), APIError(400),
     InvalidRequestError}

\* the except clauses that go on to retry
is_retried(e) ==
    \/ e.type = "RateLimitError"
    \/ e.type = "APIConnectionError"
    \/ e.type = "APIError" /\ Val(e.http_status) >= 500

\* `if retries > max_retries: raise`, off by one
cap_exceeded_late(r) == r > MAX_RETRIES + 1

\* `if retries > max_retries: raise`
cap_exceeded(r) == r > MAX_RETRIES

\* random.uniform(0, 1), at its two ends
Jitters == {0, 1}

\* the argument of time.sleep after the r-th failure
delay(e, r, jitter) ==
    LET backoff == BASE_DELAY * (2 ^ r)
                   + (IF e.type = "RateLimitError" THEN jitter ELSE 0)
    IN  IF backoff <= MAX_DELAY THEN backoff ELSE MAX_DELAY

\* func returns: the wrapper returns its value
InvokeReturns ==
    /\ retry_pc = "calling"
    /\ retries <= MAX_RETRIES
    /\ outcomes' = Append(outcomes, Returns)
    /\ retry_pc' = "returned"
    /\ UNCHANGED <<retries, waits, last_error>>
    /\ UNCHANGED <<pipeVars, genVars, simVars, runVars>>

\* func raises an error of a retried kind: count it, raise at the cap, else
\* sleep and go round the while loop, which falls through to `return None`
\* when its condition fails
InvokeRaisesRetried ==
    /\ retry_pc = "calling"
    /\ retries <= MAX_RETRIES
    /\ \E e \in {x \in StripeErrors : is_retried(x)}, jitter \in Jitters :
         /\ outcomes' = Append(outcomes, e)
         /\ retries' = retries + 1
         /\ IF cap_exceeded(retries + 1)
            THEN /\ retry_pc' = "raised"
                 /\ last_error' = Some(e)
                 /\ waits' = waits
            ELSE /\ waits' = Append(waits, delay(e, retries + 1, jitter))
                 /\ retry_pc' = IF retries + 1 <= MAX_RETRIES
                                THEN "calling" ELSE "returned_none"
                 /\ last_error' = last_error
    /\ UNCHANGED <<pipeVars, genVars, simVars, runVars>>

\* func raises an APIError below 500, or an exception no clause catches
InvokeRaisesOther ==
    /\ retry_pc = "calling"
    /\ retries <= MAX_RETRIES
    /\ \E e \in {x \in StripeErrors : ~is_retried(x)} :
         /\ outcomes' = Append(outcomes, e)
         /\ last_error' = Some(e)
    /\ retry_pc' = "raised"
    /\ UNCHANGED <<retries, waits>>
    /\ UNCHANGED <<pipeVars, genVars, simVars, runVars>>

\* a call of a wrapped function
RetryInit ==
    /\ retry_pc = "calling"
    /\ retries = 0
    /\ outcomes = <<>>
    /\ waits = <<>>
    /\ last_error = <<>>

InitRetry == PipeIdle /\ GenIdle /\ RetryInit /\ SimIdle /\ RunIdle

NextRetry == InvokeReturns \/ InvokeRaisesRetried \/ InvokeRaisesOther

\* one call of a function wrapped by retry_with_exponential_backoff
SpecRetry == InitRetry /\ [][NextRetry]_vars

----------------------------------------------------------------------------
(* Claims about the retry wrapper *)

\* the invocations of func that raised
Failures == {k \in 1..Len(outcomes) : outcomes[k] # Returns}

\* C17: an error of a retried kind (rate limit, connection error, API error
\* with http_status >= 500) is retried at most MAX_RETRIES times, so func is
\* invoked at most MAX_RETRIES + 1 times, and every wait is at most MAX_DELAY;
\* at the cap the wrapper raises the last error and never returns None; an
\* API error below 500 is raised by the invocation that met it, unretried.
C17_BoundedRetry ==
    /\ Len(outcomes) <= MAX_RETRIES + 1
    /\ Len(waits) <= MAX_RETRIES
    /\ \A k \in 1..Len(waits) : waits[k] <= MAX_DELAY
    /\ retry_pc # "returned_none"
    /\ retry_pc = "returned" => outcomes[Len(outcomes)] = Returns
    /\ retry_pc = "raised" =>
         /\ last_error = Some(outcomes[Len(outcomes)])
         /\ is_retried(Val(last_error)) =>
              /\ Len(outcomes) = MAX_RETRIES + 1
              /\ Failures = 1..(MAX_RETRIES + 1)
    /\ \A k \in Failures :
         ~is_retried(outcomes[k]) =>
              /\ k = Len(outcomes)
              /\ retry_pc = "raised"
              /\ Len(waits) = k - 1

\* the cap was exhausted by retried errors of more than one kind
C17_Witness ==
    /\ retry_pc = "raised"
    /\ Len(outcomes) = MAX_RETRIES + 1
    /\ is_retried(Val(last_error))
    /\ \E k \in 1..Len(outcomes) : outcomes[k].type # Val(last_error).type

----------------------------------------------------------------------------
(* create_test_clocks_by_month and create_customers_and_subscriptions *)

MONTHS_OF_HISTORY == 6
\* month_seconds = 30 * 24 * 60 * 60
month_seconds == 30 * 24 * 60 * 60
\* customers per test clock:  clock_index = i // 3
CUSTOMERS_PER_CLOCK == 3

\* largest number of scenarios of one acquisition month in the small runs of
\* the creation
MaxMonthCustomers == 4

HistoryMonths == 0..(MONTHS_OF_HISTORY - 1)

\* [s for s in scenarios if s['acquisition_month'] == month]
month_scenarios(scens, month) ==
    SelectSeq(scens, LAMBDA sc : sc.acquisition_month = month)

\* a plausible slip: the number of clocks rounded down,  len(...) // 3
create_test_clocks_rounded_down(scens) ==
    [month \in HistoryMonths |->
        LET n == Len(month_scenarios(scens, month))
            num_clocks == n \div CUSTOMERS_PER_CLOCK
        IN  [k \in 1..num_clocks |->
                [id |-> <<month, k>>, frozen_time |-> month * month_seconds]]]

\* the clocks of every month, named "Month {month} Clock {i + 1}" and frozen
\* at the start of the month; a month without scenarios has no key
create_test_clocks_by_month(scens) ==
    [month \in HistoryMonths |->
        LET n == Len(month_scenarios(scens, month))
            num_clocks == (n + 2) \div CUSTOMERS_PER_CLOCK
        IN  [k \in 1..num_clocks |->
                [id |-> <<month, k>>, frozen_time |-> month * month_seconds]]]

EmptyCreatedData ==
    [customers |-> <<>>,
     subscriptions |-> <<>>,
     stats |-> [active |-> 0, canceled |-> 0, past_due |-> 0],
     by_month |-> [month \in HistoryMonths |-> <<>>]]

\* what the Stripe calls of one iteration do: the customer, the payment method
\* (created and attached, or not attempted) and the subscription
CreationOutcomes(status) ==
    {[customer |-> "error", payment_method |-> "skipped", subscription |-> "skipped"]}
    \cup
    {[customer |-> "ok", payment_method |-> pm, subscription |-> sub] :
        pm \in (IF status = "past_due" THEN {"skipped"} ELSE {"ok", "error"}),
        sub \in {"ok", "error"}}

cust_data(sc, month, clock_index, test_clock) ==
    [customer |-> sc.customer_index,
     scenario |-> sc,
     acquisition_month |-> month,
     clock_index |-> clock_index,
     test_clock |-> test_clock]

sub_data(sc, month, clock_index, test_clock) ==
    [subscription |-> sc.customer_index,
     scenario |-> sc,
     acquisition_month |-> month,
     clock_index |-> clock_index,
     test_clock |-> test_clock]

\* the customer stored as soon as it is created
store_created_customer_first(cd, sc, month, clock_index, test_clock, outcome) ==
    IF outcome.customer = "ok"
    THEN LET c == cust_data(sc, month, clock_index, test_clock)
         IN  IF outcome.subscription = "ok"
             THEN [cd EXCEPT
                     !.customers = Append(@, c),
                     !.by_month[month] = Append(@, c),
                     !.subscriptions =
                         Append(@, sub_data(sc, month, clock_index, test_clock)),
                     !.stats[sc.status] = @ + 1]
             ELSE [cd EXCEPT !.customers = Append(@, c)]
    ELSE cd

\* the body of the try: the stores are reached only when no call raised
store_created(cd, sc, month, clock_index, test_clock, outcome) ==
    IF outcome.customer = "ok" /\ outcome.subscription = "ok"
    THEN LET c == cust_data(sc, month, clock_index, test_clock)
         IN  [cd EXCEPT
                 !.customers = Append(@, c),
                 !.by_month[month] = Append(@, c),
                 !.subscriptions =
                     Append(@, sub_data(sc, month, clock_index, test_clock)),
                 !.stats[sc.status] = @ + 1]
    ELSE cd

\* test_clocks = create_test_clocks_by_month(start_date, scenarios); an error
\* of create_test_clock_with_retry leaves main
CreateTestClocks ==
    /\ sim_pc = "clocks"
    /\ \E ok \in BOOLEAN :
         IF ok
         THEN /\ test_clocks' = create_test_clocks_by_month(scenarios)
              /\ stripe_clocks' =
                    LET tc == create_test_clocks_by_month(scenarios)
                        made == UNION {{<<month, k>> : k \in 1..Len(tc[month])} :
                                          month \in HistoryMonths}
                    IN  [id \in made |->
                            [status |-> "ready",
                             frozen_time |-> tc[id[1]][id[2]].frozen_time]]
              /\ created_data' = EmptyCreatedData
              /\ sim_pc' = "months"
         ELSE /\ sim_pc' = "fatal"
              /\ UNCHANGED <<test_clocks, stripe_clocks, created_data>>
    /\ create_month' = 0
    /\ UNCHANGED <<create_index, creations, clock_tasks, max_workers, workers,
                   invoices_generated, total_canceled, completed, collected,
                   task_errors>>
    /\ UNCHANGED <<pipeVars, genVars, retryVars, runVars>>

\* one iteration of  for month in range(MONTHS_OF_HISTORY), up to the inner
\* loop: a month without scenarios or without clocks is passed over
BeginMonthCohort ==
    /\ sim_pc = "months"
    /\ create_month < MONTHS_OF_HISTORY
    /\ IF month_scenarios(scenarios, create_month) = <<>>
          \/ test_clocks[create_month] = <<>>
       THEN /\ create_month' = create_month + 1
            /\ UNCHANGED <<sim_pc, create_index, created_data>>
       ELSE /\ created_data' = [created_data EXCEPT !.by_month[create_month] = <<>>]
            /\ create_index' = 0
            /\ sim_pc' = "customers"
            /\ UNCHANGED create_month
    /\ UNCHANGED <<test_clocks, stripe_clocks, creations, clock_tasks,
                   max_workers, workers, invoices_generated, total_canceled,
                   completed, collected, task_errors>>
    /\ UNCHANGED <<pipeVars, genVars, retryVars, runVars>>

\* one iteration of  for i, scenario in enumerate(month_scenarios)
CreateCustomerAndSubscription ==
    /\ sim_pc = "customers"
    /\ create_index < Len(month_scenarios(scenarios, create_month))
    /\ LET sc == month_scenarios(scenarios, create_month)[create_index + 1]
           clock_index == create_index \div CUSTOMERS_PER_CLOCK
           month_clocks == test_clocks[create_month]
       IN  IF clock_index >= Len(month_clocks)
           THEN /\ creations' = Append(creations,
                      [scenario |-> sc.customer_index,
                       customer |-> "skipped", payment_method |-> "skipped",
                       subscription |-> "skipped"])
                /\ UNCHANGED created_data
           ELSE \E outcome \in CreationOutcomes(sc.status) :
                  /\ creations' = Append(creations,
                        [scenario |-> sc.customer_index,
                         customer |-> outcome.customer,
                         payment_method |-> outcome.payment_method,
                         subscription |-> outcome.subscription])
                  /\ created_data' =
                        store_created(created_data, sc, create_month, clock_index,
                                      month_clocks[clock_index + 1], outcome)
    /\ create_index' = create_index + 1
    /\ UNCHANGED <<sim_pc, test_clocks, stripe_clocks, create_month, clock_tasks,
                   max_workers, workers, invoices_generated, total_canceled,
                   completed, collected, task_errors>>
    /\ UNCHANGED <<pipeVars, genVars, retryVars, runVars>>

\* the inner loop is exhausted
EndMonthCohort ==
    /\ sim_pc = "customers"
    /\ create_index = Len(month_scenarios(scenarios, create_month))
    /\ create_month' = create_month + 1
    /\ sim_pc' = "months"
    /\ UNCHANGED <<test_clocks, stripe_clocks, created_data, create_index,
                   creations, clock_tasks, max_workers, workers,
                   invoices_generated, total_canceled, completed, collected,
                   task_errors>>
    /\ UNCHANGED <<pipeVars, genVars, retryVars, runVars>>

\* return created_data
ReturnCreatedData ==
    /\ sim_pc = "months"
    /\ create_month = MONTHS_OF_HISTORY
    /\ sim_pc' = "created"
    /\ UNCHANGED <<test_clocks, stripe_clocks, created_data, create_month,
                   create_index, creations, clock_tasks, max_workers, workers,
                   invoices_generated, total_canceled, completed, collected,
                   task_errors>>
    /\ UNCHANGED <<pipeVars, genVars, retryVars, runVars>>

----------------------------------------------------------------------------
(* advance_test_clocks_parallel and advance_single_clock_worker *)

\* largest max_workers of the runs
MaxWorkers == 2
\* largest number of invoices Invoice.list returns for the customers of a clock
MaxInvoices == 1

\* [c for c in month_customers], every clock given the whole month
clock_customers_of_month(month_customers, clock_idx) == month_customers

\* [c for c in month_customers if c['clock_index'] == clock_idx]
clock_customers(month_customers, clock_idx) ==
    SelectSeq(month_customers, LAMBDA c : c.clock_index = clock_idx)

\* the task of one clock, or nothing when no created customer is on it
clock_task(tc, cd, acq_month, clock_idx) ==
    LET mine == clock_customers(cd.by_month[acq_month], clock_idx)
    IN  IF mine = <<>> THEN <<>>
        ELSE << [test_clock |-> tc[acq_month][clock_idx + 1],
                 clock_customers |-> mine,
                 acq_month |-> acq_month,
                 subscriptions |-> cd.subscriptions,
                 months_to_advance |-> MONTHS_OF_HISTORY - acq_month] >>

\* the tasks of one acquisition month, in the order of enumerate(month_clocks)
month_tasks(tc, cd, acq_month) ==
    IF tc[acq_month] = <<>> \/ cd.by_month[acq_month] = <<>> THEN <<>>
    ELSE Concat([k \in 1..Len(tc[acq_month]) |-> clock_task(tc, cd, acq_month, k - 1)],
                Len(tc[acq_month]))

\* clock_tasks after the loop  for acq_month in range(MONTHS_OF_HISTORY)
prepare_clock_tasks(tc, cd) ==
    Concat([n \in 1..MONTHS_OF_HISTORY |-> month_tasks(tc, cd, n - 1)],
           MONTHS_OF_HISTORY)

\* a future not yet picked up by a thread of the pool
QueuedWorker ==
    [pc |-> "queued", advance_month |-> 0, current_time |-> 0,
     invoices_generated |-> 0, canceled_names |-> <<>>, calls |-> <<>>]

Tasks == 1..Len(clock_tasks)

Running == {t \in Tasks : workers[t].pc \in {"advance", "sleep", "invoices"}}

\* a plausible slip: the loop runs one month past months_to_advance
next_iteration_one_more(w, task) ==
    IF w.advance_month <= task.months_to_advance
    THEN [w EXCEPT !.pc = "advance", !.advance_month = @ + 1]
    ELSE [w EXCEPT !.pc = "invoices"]

\* the worker at the end of an iteration of  for advance_month in range(...)
next_iteration(w, task) ==
    IF w.advance_month < task.months_to_advance
    THEN [w EXCEPT !.pc = "advance", !.advance_month = @ + 1]
    ELSE [w EXCEPT !.pc = "invoices"]

\* an advancement error that leaves the worker
except_advance_reraised(w, task) == [w EXCEPT !.pc = "raised"]

\* except Exception: pass  # Continue on advancement errors
except_advance(w, task) == next_iteration(w, task)

\* invoices_generated = invoices, the earlier total dropped
accumulate_overwriting(total, invoices) == invoices

\* invoices_generated += invoices
accumulate(total, invoices) == total + invoices

\* next((s for s in all_subscriptions if s['scenario'] == scenario), None)
has_sub_data(all_subscriptions, sc) ==
    \E k \in 1..Len(all_subscriptions) : all_subscriptions[k].scenario = sc

\* the test on cancel_after_months loosened to  <= advance_month
due_customers_since(task, advance_month) ==
    SelectSeq([k \in 1..Len(task.clock_customers) |-> k],
              LAMBDA k :
                LET sc == task.clock_customers[k].scenario
                IN  /\ sc.status = "canceled"
                    /\ Val(sc.cancel_after_months) <= advance_month
                    /\ has_sub_data(task.subscriptions, sc))

\* the customers of the clock whose cancellation falls in this iteration
due_customers(task, advance_month) ==
    SelectSeq([k \in 1..Len(task.clock_customers) |-> k],
              LAMBDA k :
                LET sc == task.clock_customers[k].scenario
                IN  /\ sc.status = "canceled"
                    /\ sc.cancel_after_months = Some(advance_month)
                    /\ has_sub_data(task.subscriptions, sc))

simMain == <<sim_pc, test_clocks, created_data, create_month, create_index,
             creations, clock_tasks, max_workers>>

\* the tasks are prepared and every one is submitted to the executor
SubmitClockTasks ==
    /\ sim_pc = "created"
    /\ clock_tasks' = prepare_clock_tasks(test_clocks, created_data)
    /\ workers' = [t \in 1..Len(prepare_clock_tasks(test_clocks, created_data))
                      |-> QueuedWorker]
    /\ invoices_generated' = 0
    /\ total_canceled' = <<>>
    /\ completed' = 0
    /\ sim_pc' = "advancing"
    /\ UNCHANGED <<test_clocks, stripe_clocks, created_data, create_month,
                   create_index, creations, max_workers, collected, task_errors>>
    /\ UNCHANGED <<pipeVars, genVars, retryVars, runVars>>

\* a free thread of the pool takes the oldest queued task; the worker runs up
\* to its first advance call
StartWorker(t) ==
    /\ sim_pc = "advancing"
    /\ workers[t].pc = "queued"
    /\ \A u \in 1..(t - 1) : workers[u].pc # "queued"
    /\ Cardinality(Running) < max_workers
    /\ workers' = [workers EXCEPT ![t] =
                      [@ EXCEPT !.pc = "advance",
                                !.advance_month = 1,
                                !.current_time = clock_tasks[t].test_clock.frozen_time]]
    /\ UNCHANGED <<simMain, stripe_clocks, invoices_generated, total_canceled,
                   completed, collected, task_errors>>
    /\ UNCHANGED <<pipeVars, genVars, retryVars, runVars>>

\* current_time += month_seconds; advance_test_clock_with_retry(...): Stripe
\* takes the request and starts advancing, or the call raises
AdvanceClock(t) ==
    /\ sim_pc = "advancing"
    /\ workers[t].pc = "advance"
    /\ LET task == clock_tasks[t]
           id == task.test_clock.id
           target == workers[t].current_time + month_seconds
           moved == [workers[t] EXCEPT !.current_time = target]
           call(ok) == [op |-> "advance", month |-> workers[t].advance_month,
                        ok |-> ok, customer |-> 0,
                        clock_status |-> stripe_clocks[id].status,
                        clock_time |-> stripe_clocks[id].frozen_time,
                        frozen_time |-> target]
       IN  \E ok \in BOOLEAN :
             IF ok
             THEN /\ stripe_clocks' = [stripe_clocks EXCEPT ![id] =
                         [status |-> "advancing", frozen_time |-> target]]
                  /\ workers' = [workers EXCEPT ![t] =
                         [moved EXCEPT !.pc = "sleep",
                                       !.calls = Append(@, call(TRUE))]]
             ELSE /\ stripe_clocks' = stripe_clocks
                  /\ workers' = [workers EXCEPT ![t] =
                         except_advance([moved EXCEPT !.calls = Append(@, call(FALSE))],
                                        task)]
    /\ UNCHANGED <<simMain, invoices_generated, total_canceled, completed,
                   collected, task_errors>>
    /\ UNCHANGED <<pipeVars, genVars, retryVars, runVars>>

\* Stripe finishes the advancement of a clock
ClockSettles(id) ==
    /\ sim_pc = "advancing"
    /\ stripe_clocks[id].status = "advancing"
    /\ stripe_clocks' = [stripe_clocks EXCEPT ![id].status = "ready"]
    /\ UNCHANGED <<simMain, workers, invoices_generated, total_canceled,
                   completed, collected, task_errors>>
    /\ UNCHANGED <<pipeVars, genVars, retryVars, runVars>>

\* time.sleep(2) is over: the cancellations of this iteration are issued, each
\* in its own try
CancelDue(t) ==
    /\ sim_pc = "advancing"
    /\ workers[t].pc = "sleep"
    /\ LET task == clock_tasks[t]
           id == task.test_clock.id
           due == due_customers(task, workers[t].advance_month)
           name(k) == task.clock_customers[k].scenario.customer_index
       IN  \E oks \in [1..Len(due) -> BOOLEAN] :
             LET issued == [j \in 1..Len(due) |->
                              [op |-> "cancel", month |-> workers[t].advance_month,
                               ok |-> oks[j], customer |-> name(due[j]),
                               clock_status |-> stripe_clocks[id].status,
                               clock_time |-> stripe_clocks[id].frozen_time,
                               frozen_time |-> workers[t].current_time]]
                 done == SelectSeq([j \in 1..Len(due) |-> j], LAMBDA j : oks[j])
                 names == [j \in 1..Len(done) |-> name(due[done[j]])]
             IN  workers' = [workers EXCEPT ![t] =
                    next_iteration(
                        [@ EXCEPT !.calls = @ \o issued,
                                  !.canceled_names = @ \o names],
                        task)]
    /\ UNCHANGED <<simMain, stripe_clocks, invoices_generated, total_canceled,
                   completed, collected, task_errors>>
    /\ UNCHANGED <<pipeVars, genVars, retryVars, runVars>>

\* the invoices of the clock's customers are counted, up to the first
\* Invoice.list that raises, and the worker returns its tuple
CountInvoices(t) ==
    /\ sim_pc = "advancing"
    /\ workers[t].pc = "invoices"
    /\ \E n \in 0..MaxInvoices :
         workers' = [workers EXCEPT ![t] =
                        [@ EXCEPT !.pc = "done", !.invoices_generated = n]]
    /\ UNCHANGED <<simMain, stripe_clocks, invoices_generated, total_canceled,
                   completed, collected, task_errors>>
    /\ UNCHANGED <<pipeVars, genVars, retryVars, runVars>>

\* one iteration of  for future in as_completed(futures)
CollectResult(t) ==
    /\ sim_pc = "advancing"
    /\ workers[t].pc \in {"done", "raised"}
    /\ \A k \in 1..Len(collected) : collected[k] # t
    /\ completed' = completed + 1
    /\ collected' = Append(collected, t)
    /\ IF workers[t].pc = "done"
       THEN /\ invoices_generated' =
                  accumulate(invoices_generated, workers[t].invoices_generated)
            /\ total_canceled' = total_canceled \o workers[t].canceled_names
            /\ UNCHANGED task_errors
       ELSE /\ task_errors' = Append(task_errors, t)
            /\ UNCHANGED <<invoices_generated, total_canceled>>
    /\ UNCHANGED <<simMain, stripe_clocks, workers>>
    /\ UNCHANGED <<pipeVars, genVars, retryVars, runVars>>

\* every future was yielded: the executor is left and invoices_generated
\* returned
ReturnInvoices ==
    /\ sim_pc = "advancing"
    /\ Len(collected) = Len(clock_tasks)
    /\ sim_pc' = "returned"
    /\ UNCHANGED <<test_clocks, stripe_clocks, created_data, create_month,
                   create_index, creations, clock_tasks, max_workers, workers,
                   invoices_generated, total_canceled, completed, collected,
                   task_errors>>
    /\ UNCHANGED <<pipeVars, genVars, retryVars, runVars>>

----------------------------------------------------------------------------
(* main of generate_test_data.py, from the generated scenarios on *)

\* the scenario of one customer, as generate_customer_scenarios builds it
SimScenario(index, month, status, event_month) ==
    [plan |-> Plans[1],
     acquisition_month |-> month,
     status |-> status,
     cancel_after_months |->
         IF status = "canceled" THEN Some(event_month - month) ELSE NULL,
     past_due_month |->
         IF status = "past_due" THEN Some(event_month) ELSE NULL,
     customer_index |-> index]

\* the cancel months / past-due months the schedules hold for a month
CancelMonths(month) ==
    LET l == by_acq(schedule_pairs(CANCELLATION_SCHEDULE), month)
    IN  {l[k] : k \in 1..Len(l)}

PastDueMonths(month) ==
    LET l == by_acq(schedule_pairs(PAST_DUE_SCHEDULE), month)
    IN  {l[k] : k \in 1..Len(l)}

\* generate_customer_scenarios has returned scens
GenReturned(scens) ==
    /\ num_customers = Len(scens)
    /\ acquisition_by_month = <<>>
    /\ cancellation_schedule = <<>>
    /\ past_due_schedule = <<>>
    /\ plan_draws = <<>>
    /\ gen_pc = "done"
    /\ month_pos = 0
    /\ i = 0
    /\ month_cancels = <<>>
    /\ month_past_dues = <<>>
    /\ customer_index = Len(scens)
    /\ scenarios = scens

\* n scenarios of one acquisition month, numbered from first: the canceled
\* one, then the past-due one, then the active ones
CohortScenarios(month, n, first) ==
    [k \in 1..n |->
        IF k = 1 /\ CancelMonths(month) # {}
        THEN SimScenario(first + k - 1, month, "canceled", Min(CancelMonths(month)))
        ELSE IF k = 2 /\ PastDueMonths(month) # {}
        THEN SimScenario(first + k - 1, month, "past_due", Min(PastDueMonths(month)))
        ELSE SimScenario(first + k - 1, month, "active", month)]

\* the two last acquisition months
LateMonths == <<MONTHS_OF_HISTORY - 2, MONTHS_OF_HISTORY - 1>>

\* main before Step 3, the scenarios being those of the two last months
InitCreate ==
    /\ \E n1 \in 0..MaxMonthCustomers, n2 \in 0..1 :
         /\ n1 + n2 >= 1
         /\ GenReturned(CohortScenarios(LateMonths[1], n1, 0)
                        \o CohortScenarios(LateMonths[2], n2, n1))
    /\ sim_pc = "clocks"
    /\ test_clocks = <<>>
    /\ stripe_clocks = <<>>
    /\ created_data = <<>>
    /\ create_month = 0
    /\ create_index = 0
    /\ creations = <<>>
    /\ clock_tasks = <<>>
    /\ max_workers \in 1..MaxWorkers
    /\ workers = <<>>
    /\ invoices_generated = 0
    /\ total_canceled = <<>>
    /\ completed = 0
    /\ collected = <<>>
    /\ task_errors = <<>>

InitMainCreate == PipeIdle /\ RetryIdle /\ RunIdle /\ InitCreate

NextCreate ==
    \/ CreateTestClocks
    \/ BeginMonthCohort
    \/ CreateCustomerAndSubscription
    \/ EndMonthCohort
    \/ ReturnCreatedData
    \/ SubmitClockTasks

\* Steps 3 and 4 of main and the preparation of the clock tasks
SpecCreate == InitMainCreate /\ [][NextCreate]_vars

----------------------------------------------------------------------------
(* Claims about the creation of customers and the clock tasks *)

CreationReturned == sim_pc \in {"created", "advancing", "returned"}

\* the iterations in which both the customer and the subscription were created
FullyCreated ==
    SelectSeq(creations, LAMBDA c : c.customer = "ok" /\ c.subscription = "ok")

\* an iteration in which a Stripe call raised
CreationFailed(c) ==
    \/ c.customer = "error"
    \/ c.payment_method = "error"
    \/ c.subscription = "error"

\* C19: an exception while creating the customer, the payment method or the
\* subscription of one scenario never stops the remaining scenarios: every
\* scenario is gone through, the function returns, and exactly the customers
\* whose customer and subscription were both created are recorded, each with
\* its subscription.
C19_CreationIsolated ==
    /\ sim_pc = "fatal" => creations = <<>>
    /\ CreationReturned =>
         /\ Len(creations) = Len(scenarios)
         /\ \A k \in 1..Len(scenarios) :
              creations[k].scenario = scenarios[k].customer_index
         /\ Len(created_data.customers) = Len(FullyCreated)
         /\ Len(created_data.subscriptions) = Len(FullyCreated)
         /\ \A k \in 1..Len(FullyCreated) :
              /\ created_data.customers[k].customer = FullyCreated[k].scenario
              /\ created_data.subscriptions[k].subscription = FullyCreated[k].scenario
              /\ created_data.subscriptions[k].scenario
                    = created_data.customers[k].scenario

\* a scenario whose creation raised is followed by one that was created
C19_Witness ==
    /\ CreationReturned
    /\ \E a, b \in 1..Len(creations) :
         /\ a < b
         /\ creations[a].customer = "ok"
         /\ creations[a].subscription = "error"
         /\ creations[b].customer = "ok"
         /\ creations[b].subscription = "ok"
    /\ \E a, b \in 1..Len(creations) :
         /\ a < b
         /\ creations[a].customer = "error"
         /\ creations[b].payment_method = "error"
         /\ creations[b].subscription = "ok"

TasksPrepared == sim_pc \in {"advancing", "returned"}

\* the tasks a clock appears in
TasksOfClock(id) == {t \in Tasks : clock_tasks[t].test_clock.id = id}

\* the tasks a created customer appears in
TasksOfCustomer(c) ==
    {t \in Tasks :
        \E k \in 1..Len(clock_tasks[t].clock_customers) :
            clock_tasks[t].clock_customers[k] = c}

\* C16: every test clock with at least one created customer is in exactly
\* one queued task, no task is without customers, and every created customer
\* is in exactly one task, the task of the clock it was created on.
C16_OneTaskPerClock ==
    TasksPrepared =>
      /\ \A k \in 1..Len(created_data.customers) :
           LET c == created_data.customers[k]
           IN  /\ Cardinality(TasksOfClock(c.test_clock.id)) = 1
               /\ TasksOfCustomer(c) = TasksOfClock(c.test_clock.id)
      /\ \A t \in Tasks :
           /\ clock_tasks[t].clock_customers # <<>>
           /\ \A k \in 1..Len(clock_tasks[t].clock_customers) :
                LET c == clock_tasks[t].clock_customers[k]
                IN  /\ c.test_clock = clock_tasks[t].test_clock
                    /\ \E n \in 1..Len(created_data.customers) :
                         created_data.customers[n] = c
           /\ \A k, n \in 1..Len(clock_tasks[t].clock_customers) :
                clock_tasks[t].clock_customers[k] = clock_tasks[t].clock_customers[n]
                    => k = n

\* two clocks of one month and a clock of another month each have their task,
\* one of them with several customers
C16_Witness ==
    /\ TasksPrepared
    /\ Len(clock_tasks) = 3
    /\ clock_tasks[1].acq_month = clock_tasks[2].acq_month
    /\ Len(clock_tasks[1].clock_customers) >= 2

----------------------------------------------------------------------------
(* main of generate_test_data.py, from the created customers on *)

\* largest number of customers on the clock of the single-clock runs
MaxClockCustomers == 2

\* the three last acquisition months
AdvanceMonths == (MONTHS_OF_HISTORY - 3)..(MONTHS_OF_HISTORY - 1)

\* what a customer of the month can be: canceled in one of the cancel months
\* the schedule holds for the month, or (the month itself) active
ClockOptions(month) == CancelMonths(month) \cup {month}

OptionKey(month, e) == IF e = month THEN MONTHS_OF_HISTORY ELSE e

OptionScenario(index, month, e) ==
    SimScenario(index, month, IF e = month THEN "active" ELSE "canceled", e)

\* the scenarios of the customers of one clock, the canceled ones first
IsSingleClockList(scens) ==
    \E month \in AdvanceMonths, n \in 1..MaxClockCustomers :
      \E f \in [1..n -> ClockOptions(month)] :
        /\ \A a, b \in 1..n :
             a < b => OptionKey(month, f[a]) <= OptionKey(month, f[b])
        /\ scens = [k \in 1..n |-> OptionScenario(k - 1, month, f[k])]

\* one customer in each of the two last months
IsTwoClockList(scens) ==
    \E e1 \in ClockOptions(LateMonths[1]), e2 \in ClockOptions(LateMonths[2]) :
       scens = <<OptionScenario(0, LateMonths[1], e1),
                 OptionScenario(1, LateMonths[2], e2)>>

\* created_data when no Stripe call of the creation raised
RECURSIVE CreatedUpTo(_, _)
CreatedUpTo(scens, n) ==
    IF n = 0 THEN EmptyCreatedData
    ELSE LET sc == scens[n]
             month == sc.acquisition_month
             pos == Cardinality({j \in 1..(n - 1) : scens[j].acquisition_month = month})
             clock_index == pos \div CUSTOMERS_PER_CLOCK
         IN  store_created(CreatedUpTo(scens, n - 1), sc, month, clock_index,
                           create_test_clocks_by_month(scens)[month][clock_index + 1],
                           [customer |-> "ok", payment_method |-> "ok",
                            subscription |-> "ok"])

\* main before Step 5
InitAdvance ==
    /\ IsSingleClockList(scenarios) \/ IsTwoClockList(scenarios)
    /\ GenReturned(scenarios)
    /\ sim_pc = "created"
    /\ test_clocks = create_test_clocks_by_month(scenarios)
    /\ stripe_clocks =
          [id \in {<<scenarios[k].acquisition_month, 1>> : k \in 1..Len(scenarios)} |->
              [status |-> "ready", frozen_time |-> id[1] * month_seconds]]
    /\ created_data = CreatedUpTo(scenarios, Len(scenarios))
    /\ create_month = MONTHS_OF_HISTORY
    /\ create_index =
          Len(month_scenarios(scenarios,
                              scenarios[Len(scenarios)].acquisition_month))
    /\ creations = [k \in 1..Len(scenarios) |->
                       [scenario |-> scenarios[k].customer_index,
                        customer |-> "ok", payment_method |-> "ok",
                        subscription |-> "ok"]]
    /\ clock_tasks = <<>>
    /\ max_workers \in 1..MaxWorkers
    /\ workers = <<>>
    /\ invoices_generated = 0
    /\ total_canceled = <<>>
    /\ completed = 0
    /\ collected = <<>>
    /\ task_errors = <<>>

InitMainAdvance == PipeIdle /\ RetryIdle /\ RunIdle /\ InitAdvance

NextAdvance ==
    \/ SubmitClockTasks
    \/ \E t \in Tasks : StartWorker(t)
    \/ \E t \in Tasks : AdvanceClock(t)
    \/ \E id \in DOMAIN stripe_clocks : ClockSettles(id)
    \/ \E t \in Tasks : CancelDue(t)
    \/ \E t \in Tasks : CountInvoices(t)
    \/ \E t \in Tasks : CollectResult(t)
    \/ ReturnInvoices

\* Step 5 of main: the clocks advanced by the pool
SpecAdvance == InitMainAdvance /\ [][NextAdvance]_vars

----------------------------------------------------------------------------
(* Claims about the advancement of the clocks *)

Calls(t) == workers[t].calls

\* the calls of a worker that cancel the subscription of a customer
CancelCalls(t, name) ==
    {k \in 1..Len(Calls(t)) :
        Calls(t)[k].op = "cancel" /\ Calls(t)[k].customer = name}

\* the advance call of an iteration went through
Advanced(t, month) ==
    \E k \in 1..Len(Calls(t)) :
        /\ Calls(t)[k].op = "advance"
        /\ Calls(t)[k].month = month
        /\ Calls(t)[k].ok

\* the calls of a worker that raised after their retries
FailedCalls(t) == {k \in 1..Len(Calls(t)) : ~Calls(t)[k].ok}

\* the scenarios with status canceled among the customers of a task
CanceledScenarios(t) ==
    {clock_tasks[t].clock_customers[k].scenario :
        k \in {n \in 1..Len(clock_tasks[t].clock_customers) :
                  clock_tasks[t].clock_customers[n].scenario.status = "canceled"}}

WorkerReturned(t) == workers[t].pc = "done"

\* C11: a cancellation is issued only once the clock has been advanced to the
\* boundary of the customer's cancel_after_months and Stripe has finished that
\* advancement: no cancel call finds the clock still advancing.
C11_CancelAfterSettled ==
    \A t \in Tasks :
      \A k \in 1..Len(Calls(t)) :
        Calls(t)[k].op = "cancel" =>
          /\ Calls(t)[k].clock_time
                >= clock_tasks[t].test_clock.frozen_time
                   + Calls(t)[k].month * month_seconds
          /\ Calls(t)[k].clock_status = "ready"

C13_FailureIsolation ==
    /\ \A t \in Tasks : workers[t].pc # "raised"
    /\ sim_pc = "returned" =>
         /\ task_errors = <<>>
         /\ completed = Len(clock_tasks)
         /\ \A t \in Tasks :
              /\ WorkerReturned(t)
              /\ \E k \in 1..Len(collected) : collected[k] = t
              /\ \A month \in 1..clock_tasks[t].months_to_advance :
                   \E k \in 1..Len(Calls(t)) :
                       Calls(t)[k].op = "advance" /\ Calls(t)[k].month = month

\* the function returned although every call of one worker raised, the other
\* worker having had none
C13_Witness ==
    /\ sim_pc = "returned"
    /\ Len(clock_tasks) = 2
    /\ \E t, u \in Tasks :
         /\ FailedCalls(t) = 1..Len(Calls(t))
         /\ FailedCalls(u) = {}
         /\ Len(Calls(u)) > clock_tasks[u].months_to_advance

\* C14: the number of calls that failed is carried by the worker results and
\* reported by advance_test_clocks_parallel: the failures it reports are as
\* many as the calls that raised.
C14_FailuresCounted ==
    sim_pc = "returned" =>
      Len(task_errors)
         = SumTo([t \in Tasks |-> Cardinality(FailedCalls(t))], Len(clock_tasks))

\* what the collected workers returned, in the order of collection
RECURSIVE CollectedNames(_)
CollectedNames(n) ==
    IF n = 0 THEN <<>>
    ELSE CollectedNames(n - 1) \o workers[collected[n]].canceled_names

RECURSIVE CollectedInvoices(_)
CollectedInvoices(n) ==
    IF n = 0 THEN 0
    ELSE CollectedInvoices(n - 1) + workers[collected[n]].invoices_generated

\* C15: in every interleaving the totals are those of the collected workers:
\* invoices_generated is the sum of their counts and total_canceled the
\* concatenation of their lists, every task being collected at the return; a
\* worker running changes neither.
C15_NoLostUpdate ==
    /\ sim_pc \in {"advancing", "returned"} =>
         /\ \A k \in 1..Len(collected) : WorkerReturned(collected[k])
         /\ invoices_generated = CollectedInvoices(Len(collected))
         /\ total_canceled = CollectedNames(Len(collected))
    /\ sim_pc = "returned" =>
         {collected[k] : k \in 1..Len(collected)} = Tasks

\* two workers ran together and were collected against the order of
\* submission, each with invoices and one with a canceled customer
C15_Witness ==
    /\ sim_pc = "returned"
    /\ max_workers = 2
    /\ collected = <<2, 1>>
    /\ workers[1].invoices_generated > 0
    /\ workers[2].invoices_generated > 0
    /\ total_canceled # <<>>

----------------------------------------------------------------------------
(* run_full_pipeline, from the extraction on *)

\* largest number of subscriptions Stripe returns
MaxStripeSubs == 2

\* datetime.fromtimestamp: the calendar time of a Stripe timestamp, which the
\* model writes as a calendar time already
fromtimestamp(ts) == ts

\* the record _add_subscription_to_data builds for a monthly price
subscription_record(sub, et) ==
    [ subscription_id |-> sub.id,
      customer_id |-> sub.customer,
      mrr_amount |-> (sub.unit_amount * sub.quantity) \div 100,
      start_date |-> IF sub.start_date # NULL
                     THEN fromtimestamp(Val(sub.start_date)) ELSE et,
      canceled_at |-> IF sub.canceled_at # NULL
                      THEN Some(fromtimestamp(Val(sub.canceled_at))) ELSE NULL ]

\* _add_subscription_to_data: a subscription already in the list is passed over
add_subscription_to_data(records, sub, et) ==
    IF \E k \in 1..Len(records) : records[k].subscription_id = sub.id
    THEN records
    ELSE Append(records, subscription_record(sub, et))

\* the subscriptions of the first n Stripe subscriptions
RECURSIVE extract_subscriptions(_, _, _)
extract_subscriptions(raw, n, et) ==
    IF n = 0 THEN <<>>
    ELSE add_subscription_to_data(extract_subscriptions(raw, n - 1, et), raw[n], et)

\* the keys of extracted_data, in the order of the dict
DataTypes == <<"customers", "subscriptions", "invoices", "prices", "products">>

\* the dict extract_stripe_data returns: every customer has one subscription,
\* there is one price of one product and no invoice
extract_stripe_data(raw, et) ==
    << <<"customers", [k \in 1..Len(raw) |-> [customer_id |-> raw[k].customer]]>>,
       <<"subscriptions", extract_subscriptions(raw, Len(raw), et)>>,
       <<"invoices", <<>>>>,
       <<"prices", <<[price_id |-> 1, product_id |-> 1]>>>>,
       <<"products", <<[product_id |-> 1]>>>> >>

\* a load job that fails raises out of load_data_to_bigquery
catches_load_error_never(job_ok) == job_ok

\* try: load_table_from_file ... except Exception: the failure is printed
catches_load_error(job_ok) == TRUE

\* the subscriptions Stripe holds: subscription k of customer k, with or
\* without start_date, canceled or not
RawStarts ==
    {NULL, Some(MkTimestamp(MkDate(2024, 1, 15), 0)),
           Some(MkTimestamp(MkDate(2024, 3, 1), 0))}

RawCancels == {NULL, Some(MkTimestamp(MkDate(2024, 3, 10), 12))}

IsStripeState(raw) ==
    \E n \in 1..MaxStripeSubs :
      \E st \in [1..n -> RawStarts], ca \in [1..n -> RawCancels] :
        raw = [k \in 1..n |->
                  [id |-> k, customer |-> k, unit_amount |-> AmountOf(k) * 100,
                   quantity |-> 1, start_date |-> st[k], canceled_at |-> ca[k]]]

\* run_full_pipeline after Step 1, the tables just created
InitRun ==
    /\ IsStripeState(stripe_subscriptions)
    /\ today \in Todays
    /\ extraction_time = MkTimestamp(today, 9)
    /\ extracted_data = <<>>
    /\ tables = [t \in {"customers", "invoices", "prices", "products"} |-> <<>>]
    /\ load_jobs = <<>>
    /\ failed_steps = {}
    /\ subscriptions = <<>>
    /\ pc = "extract"
    /\ mrr_records = <<>>
    /\ mrr_summary = <<>>
    /\ cohort_records = <<>>
    /\ cohort_analysis = <<>>

\* Step 2: extracted_data = self.extract_stripe_data(); Price.list and
\* Product.list are outside any try, so the step can raise
ExtractStripeData ==
    /\ pc = "extract"
    /\ \E ok \in BOOLEAN :
         IF ok
         THEN /\ extracted_data' = extract_stripe_data(stripe_subscriptions, extraction_time)
              /\ pc' = "extracted"
              /\ UNCHANGED failed_steps
         ELSE /\ pc' = "failed"
              /\ failed_steps' = failed_steps \cup {"extract"}
              /\ UNCHANGED extracted_data
    /\ UNCHANGED <<subscriptions, today, mrr_records, mrr_summary, cohort_records,
                   cohort_analysis, stripe_subscriptions, extraction_time,
                   tables, load_jobs>>
    /\ UNCHANGED <<genVars, retryVars, simVars>>

\* Step 3: self.load_data_to_bigquery(extracted_data): one load job per data
\* type with records, in the order of the dict
LoadExtractedData ==
    /\ pc = "extracted"
    /\ LET n == Len(extracted_data)
           with_records == {k \in 1..n : extracted_data[k][2] # <<>>}
       IN  \E job_ok \in [with_records -> BOOLEAN] :
             LET raising == {k \in with_records :
                                ~job_ok[k] /\ ~catches_load_error(job_ok[k])}
                 reached == {k \in with_records : \A r \in raising : k <= r}
                 jobs == SelectSeq([k \in 1..n |-> k], LAMBDA k : k \in reached)
                 loaded(type, table) ==
                    LET ks == {k \in reached : extracted_data[k][1] = type}
                    IN  IF ks = {} THEN table
                        ELSE LET k == CHOOSE x \in ks : TRUE
                             IN  load_data_to_bigquery(table, extracted_data[k][2],
                                                       job_ok[k])
             IN  /\ load_jobs' = [j \in 1..Len(jobs) |->
                                    [table |-> extracted_data[jobs[j]][1],
                                     ok |-> job_ok[jobs[j]]]]
                 /\ subscriptions' = loaded("subscriptions", subscriptions)
                 /\ tables' = [t \in DOMAIN tables |-> loaded(t, tables[t])]
                 /\ pc' = IF raising = {} THEN "loaded" ELSE "failed"
                 /\ failed_steps' = failed_steps
                        \cup (IF \E k \in reached : ~job_ok[k] THEN {"load"} ELSE {})
    /\ UNCHANGED <<today, mrr_records, mrr_summary, cohort_records, cohort_analysis,
                   stripe_subscriptions, extraction_time, extracted_data>>
    /\ UNCHANGED <<genVars, retryVars, simVars>>

\* Step 4 when the query or the reading of its rows raises: the error is
\* printed by calculate_mrr_metrics
MrrMetricsFail ==
    /\ pc = "loaded"
    /\ pc' = "mrr_done"
    /\ failed_steps' = failed_steps \cup {"mrr"}
    /\ UNCHANGED <<subscriptions, today, mrr_records, mrr_summary, cohort_records,
                   cohort_analysis, stripe_subscriptions, extraction_time,
                   extracted_data, tables, load_jobs>>
    /\ UNCHANGED <<genVars, retryVars, simVars>>

\* Step 5 when the query or the reading of its rows raises
CohortAnalysisFails ==
    /\ pc = "mrr_done"
    /\ pc' = "cohort_done"
    /\ failed_steps' = failed_steps \cup {"cohort"}
    /\ UNCHANGED <<subscriptions, today, mrr_records, mrr_summary, cohort_records,
                   cohort_analysis, stripe_subscriptions, extraction_time,
                   extracted_data, tables, load_jobs>>
    /\ UNCHANGED <<genVars, retryVars, simVars>>

InitPipeline == InitRun /\ GenIdle /\ RetryIdle /\ SimIdle

NextRun ==
    \/ ExtractStripeData
    \/ LoadExtractedData
    \/ CalculateMrrMetrics
    \/ MrrMetricsFail
    \/ CalculateCohortAnalysis
    \/ CohortAnalysisFails

\* run_full_pipeline from the extraction to the cohort analysis
SpecRun == InitPipeline /\ [][NextRun]_vars

----------------------------------------------------------------------------
(* Claims about the failures of the pipeline *)

\* calculate_mrr_metrics ran its query and built mrr_records
MrrSucceeded == MrrComputed /\ "mrr" \notin failed_steps

\* the Stripe subscriptions that carry no start_date
MissingStart ==
    {stripe_subscriptions[k].id :
        k \in {n \in 1..Len(stripe_subscriptions) :
                  stripe_subscriptions[n].start_date = NULL}}

\* the rows of the subscriptions table whose subscription has a start_date
DatedRows ==
    SelectSeq(subscriptions, LAMBDA r : r.subscription_id \notin MissingStart)

\* C18: a subscription whose start_date is missing never aborts the batch
\* (every other subscription is extracted), adds nothing to total_mrr and
\* new_mrr of any month and is left out of active_customers and new_customers
\* of every month.
C18_MissingStartContributesZero ==
    /\ pc \in {"extracted", "loaded", "mrr_done", "cohort_done"} =>
         \A k \in 1..Len(stripe_subscriptions) :
            stripe_subscriptions[k].start_date # NULL =>
               \E n \in 1..Len(extracted_data[2][2]) :
                  extracted_data[2][2][n].subscription_id = stripe_subscriptions[k].id
    /\ MrrSucceeded =>
         \A k \in 1..Len(mrr_records) :
            LET r == mrr_records[k]
                dated == monthly_metrics(DatedRows, r.month_start_date)
            IN  /\ r.total_mrr = dated.total_mrr
                /\ r.new_mrr = dated.new_mrr
                /\ r.active_customers = dated.active_customers
                /\ r.new_customers = dated.new_customers

\* the load jobs Step 3 has to issue: one per data type with records
DueLoads ==
    SelectSeq([k \in 1..Len(extracted_data) |-> extracted_data[k]],
              LAMBDA d : d[2] # <<>>)

TableOf(type) == IF type = "subscriptions" THEN subscriptions ELSE tables[type]

\* C20: a load job that fails does not raise out of load_data_to_bigquery and
\* does not keep the other tables of the call from being loaded; a failed load
\* or a failed MRR computation does not keep the cohort computation from
\* running.
C20_LoadFailureIsolated ==
    /\ pc = "failed" => failed_steps = {"extract"}
    /\ pc \in {"loaded", "mrr_done", "cohort_done"} /\ extracted_data # <<>> =>
         /\ Len(load_jobs) = Len(DueLoads)
         /\ \A j \in 1..Len(load_jobs) :
              /\ load_jobs[j].table = DueLoads[j][1]
              /\ TableOf(load_jobs[j].table)
                    = IF load_jobs[j].ok THEN DueLoads[j][2] ELSE <<>>
    /\ pc = "cohort_done" /\ "cohort" \notin failed_steps =>
         cohort_records = to_cohort_records(cohort_query(subscriptions, today))

\* the cohort analysis was computed after the load of the customers table and
\* the MRR computation had failed, the subscriptions table being loaded
C20_Witness ==
    /\ pc = "cohort_done"
    /\ failed_steps = {"load", "mrr"}
    /\ \E j \in 1..Len(load_jobs) :
         load_jobs[j].table = "customers" /\ ~load_jobs[j].ok
    /\ subscriptions # <<>>
    /\ cohort_records # <<>>
    /\ mrr_records = <<>>

----------------------------------------------------------------------------
(* run_full_pipeline run again on tables an earlier run has filled *)

\* the Stripe accounts of IsStripeState, as a set
StripeStates ==
    UNION {
        {[k \in 1..n |->
            [id |-> k, customer |-> k, unit_amount |-> AmountOf(k) * 100,
             quantity |-> 1, start_date |-> st[k], canceled_at |-> ca[k]]]
         : st \in [1..n -> RawStarts], ca \in [1..n -> RawCancels]}
        : n \in 1..MaxStripeSubs }

\* the day of the earlier run
EarlierDay == MkDate(2024, 3, 20)

\* the tables a run leaves whose every job succeeded, begun on empty tables
run_full_pipeline(raw, day) ==
    LET data == extract_stripe_data(raw, MkTimestamp(day, 9))
        subs == data[2][2]
    IN  [ customers       |-> load_data_to_bigquery(<<>>, data[1][2], TRUE),
          subscriptions   |-> load_data_to_bigquery(<<>>, subs, TRUE),
          invoices        |-> load_data_to_bigquery(<<>>, data[3][2], TRUE),
          prices          |-> load_data_to_bigquery(<<>>, data[4][2], TRUE),
          products        |-> load_data_to_bigquery(<<>>, data[5][2], TRUE),
          mrr_summary     |-> load_data_to_bigquery(
                                  <<>>, to_mrr_records(mrr_query(subs, day)), TRUE),
          cohort_analysis |-> load_data_to_bigquery(
                                  <<>>, to_cohort_records(cohort_query(subs, day)), TRUE) ]

\* Step 1 of a later run: create_tables keeps every table that exists, with
\* its rows; since the earlier run the last customers of the account, none of
\* them or all of them were deleted together with their subscriptions
InitRerun ==
    /\ \E prev \in StripeStates :
         LET earlier == run_full_pipeline(prev, EarlierDay)
         IN  /\ \E n \in 0..Len(prev) : stripe_subscriptions = SubSeq(prev, 1, n)
             /\ subscriptions = earlier.subscriptions
             /\ tables = [t \in {"customers", "invoices", "prices", "products"}
                             |-> earlier[t]]
             /\ mrr_summary = earlier.mrr_summary
             /\ cohort_analysis = earlier.cohort_analysis
    /\ today \in Todays
    /\ extraction_time = MkTimestamp(today, 9)
    /\ extracted_data = <<>>
    /\ load_jobs = <<>>
    /\ failed_steps = {}
    /\ pc = "extract"
    /\ mrr_records = <<>>
    /\ cohort_records = <<>>

InitPipelineAgain == InitRerun /\ GenIdle /\ RetryIdle /\ SimIdle

\* a later run of run_full_pipeline
SpecRerun == InitPipelineAgain /\ [][NextRun]_vars

\* Step 3 has returned
Loaded == pc \in {"loaded", "mrr_done", "cohort_done"}

\* the data types of this run whose load job failed
FailedLoads ==
    {load_jobs[j].table : j \in {k \in 1..Len(load_jobs) : ~load_jobs[k].ok}}

\* C21: each load is a full replace: after a run every table that
\* load_data_to_bigquery was handed a record set for holds exactly that record
\* set, the empty one included, unless its load job failed; no row of an
\* earlier run survives; the same for mrr_summary and cohort_analysis and the
\* records the run computed.
C21_FullReplace ==
    /\ Loaded =>
         \A k \in 1..Len(extracted_data) :
            extracted_data[k][1] \notin FailedLoads
                => TableOf(extracted_data[k][1]) = extracted_data[k][2]
    /\ (MrrSucceeded /\ mrr_records = <<>>) => mrr_summary = <<>>
    /\ (pc = "cohort_done" /\ "cohort" \notin failed_steps /\ cohort_records = <<>>)
         => cohort_analysis = <<>>

----------------------------------------------------------------------------
(* Claims about the rows of calculate_mrr_metrics *)

\* run_full_pipeline before Step 4, on the tables of 1..MaxSubs rows
InitPipeMrr ==
    /\ IsGeneralTable(subscriptions)
    /\ today \in Todays
    /\ pc = "loaded"
    /\ mrr_records = <<>>
    /\ mrr_summary = <<>>
    /\ cohort_records = <<>>
    /\ cohort_analysis = <<>>

InitMrr == InitPipeMrr /\ GenIdle /\ RestIdle

NextMrr == CalculateMrrMetrics

\* Step 4 of run_full_pipeline, the MRR computation alone
SpecMrr == InitMrr /\ [][NextMrr]_vars

\* the generated month buckets, in order
MonthSeq == Months(MinStartDate(subscriptions), today)

\* total_mrr of the month bucket before month m in the generated sequence, 0
\* when m is its first bucket
PrevTotal(m) ==
    IF m = MonthSeq[1] THEN 0
    ELSE monthly_metrics(subscriptions, m - 32).total_mrr

\* the emitted months
EmittedMonths == {mrr_records[k].month_start_date : k \in 1..Len(mrr_records)}

\* C22: growth_rate of an emitted month bucket is
\* (total_mrr - prev_total) / prev_total * 100, prev_total the total_mrr of the
\* month bucket right before it in the generated sequence, and is 0 for the
\* first bucket or when prev_total is 0.
C22_GrowthRate ==
    MrrComputed =>
        \A k \in 1..Len(mrr_records) :
            LET r == mrr_records[k]
                prev_total == PrevTotal(r.month_start_date)
            IN  r.growth_rate =
                    IF prev_total = 0 THEN Zero
                    ELSE Frac((r.total_mrr - prev_total) * 100, prev_total)

\* C22 witness: a run that emitted a first bucket and a later bucket whose
\* total grew, without doubling, over a previous month that had MRR
C22_Witness ==
    /\ MrrComputed
    /\ mrr_records[1].growth_rate = Zero
    /\ \E k \in 2..Len(mrr_records) :
         /\ PrevTotal(mrr_records[k].month_start_date) > 0
         /\ mrr_records[k].total_mrr > PrevTotal(mrr_records[k].month_start_date)
         /\ mrr_records[k].growth_rate # Zero

\* the subscriptions with start_date in [M_start, M_end), M_end = M_start + 1 month
StartedIn(M_start) ==
    {j \in 1..Len(subscriptions) :
        /\ subscriptions[j].start_date >= MkTimestamp(M_start, 0)
        /\ subscriptions[j].start_date < MkTimestamp(M_start + 32, 0)}

\* the subscriptions with canceled_at in [M_start, M_end)
CanceledIn(M_start) ==
    {j \in 1..Len(subscriptions) :
        /\ subscriptions[j].canceled_at # NULL
        /\ Val(subscriptions[j].canceled_at) >= MkTimestamp(M_start, 0)
        /\ Val(subscriptions[j].canceled_at) < MkTimestamp(M_start + 32, 0)}

\* C23: for every month bucket M, new_customers and new_mrr are the distinct
\* customers and the summed amount of exactly the subscriptions with start_date
\* in [M_start, M_end), churned_customers and churned_mrr those of exactly the
\* subscriptions with canceled_at in [M_start, M_end), whether or not the
\* subscription is active in M (a month that is not emitted has no such
\* subscription); every emitted row has net_new_mrr = new_mrr - churned_mrr and
\* expansion_mrr = contraction_mrr = 0.
C23_NewAndChurned ==
    MrrComputed =>
        /\ \A k \in 1..Len(MonthSeq) :
            MonthSeq[k] \notin EmittedMonths =>
                StartedIn(MonthSeq[k]) = {} /\ CanceledIn(MonthSeq[k]) = {}
        /\ \A k \in 1..Len(mrr_records) :
            LET r == mrr_records[k]
                M == r.month_start_date
            IN  /\ r.new_customers = CountDistinctCustomers(subscriptions, StartedIn(M))
                /\ r.new_mrr = SumAmount(subscriptions, StartedIn(M))
                /\ r.churned_customers =
                      CountDistinctCustomers(subscriptions, CanceledIn(M))
                /\ r.churned_mrr = SumAmount(subscriptions, CanceledIn(M))
                /\ r.net_new_mrr = r.new_mrr - r.churned_mrr
                /\ r.expansion_mrr = 0
                /\ r.contraction_mrr = 0

\* C23 witness: an emitted row of a month in which a subscription started and
\* was canceled, nobody being active, and a subscription canceled exactly at
\* the end of an emitted month
C23_Witness ==
    /\ MrrComputed
    /\ \E k \in 1..Len(mrr_records) :
         /\ mrr_records[k].active_customers = 0
         /\ mrr_records[k].new_mrr > 0
         /\ mrr_records[k].churned_mrr > 0
         /\ mrr_records[k].net_new_mrr = 0
    /\ \E k \in 1..Len(mrr_records) : \E s \in Rows :
         s.canceled_at = Some(MkTimestamp(mrr_records[k].month_start_date + 32, 0))

\* the month buckets of the generated sequence in which a customer is active,
\* new or churned
NonEmptyMonths ==
    {MonthSeq[k] : k \in {j \in 1..Len(MonthSeq) :
        \/ \E s \in Rows : ActiveInMonth(s, MonthSeq[j])
        \/ StartedIn(MonthSeq[j]) # {}
        \/ CanceledIn(MonthSeq[j]) # {}}}

\* C24: the generated sequence runs month by month from the month of the
\* earliest start_date to the month of today, and a bucket of it is emitted if
\* and only if active_customers, new_customers or churned_customers is nonzero
\* for the month: no emitted row has the three counts zero, no month with a
\* nonzero count is missing, and no month is emitted twice.
C24_EmittedIffNonEmpty ==
    MrrComputed =>
        /\ MonthSeq[1] =
              DATE_TRUNC_MONTH(Min({DATE(s.start_date) : s \in Rows}))
        /\ MonthSeq[Len(MonthSeq)] = DATE_TRUNC_MONTH(today)
        /\ \A k \in 1..(Len(MonthSeq) - 1) : MonthSeq[k + 1] = MonthSeq[k] + 32
        /\ EmittedMonths = NonEmptyMonths
        /\ Len(mrr_records) = Cardinality(EmittedMonths)
        /\ \A k \in 1..Len(mrr_records) :
              \/ mrr_records[k].active_customers > 0
              \/ mrr_records[k].new_customers > 0
              \/ mrr_records[k].churned_customers > 0

\* C24 witness: a run with a suppressed bucket and with a bucket emitted for
\* its churned customer alone
C24_Witness ==
    /\ MrrComputed
    /\ \E k \in 2..Len(MonthSeq) : MonthSeq[k] \notin EmittedMonths
    /\ \E k \in 1..Len(mrr_records) :
         /\ mrr_records[k].active_customers = 0
         /\ mrr_records[k].new_customers = 0
         /\ mrr_records[k].churned_customers > 0

----------------------------------------------------------------------------
(* The computation run more than a year after the first subscriptions *)

\* number of rows of the subscriptions table in these snapshots
WindowSubs == 2

\* a table of subscriptions started in January or February 2024, each never
\* canceled or canceled in March 2024
IsWindowTable(table) ==
    LET lives == (Timestamps(0, StartTimes) \cup Timestamps(1, StartTimes)) \X
                 ({NULL} \cup {Some(t) : t \in Timestamps(2, CancelTimes)})
    IN  \E c \in CustomerAssignments(WindowSubs) :
          \E l \in SortedLives(lives, WindowSubs) :
            table = [k \in 1..WindowSubs |-> SubRow(k, c[k], l[k])]

\* CURRENT_DATE(): twelve and thirteen months after January 2024
LateTodays == {MkDate(2025, 1, 20), MkDate(2025, 2, 5)}

InitPipeLate ==
    /\ IsWindowTable(subscriptions)
    /\ today \in LateTodays
    /\ pc = "loaded"
    /\ mrr_records = <<>>
    /\ mrr_summary = <<>>
    /\ cohort_records = <<>>
    /\ cohort_analysis = <<>>

InitLate == InitPipeLate /\ GenIdle /\ RestIdle

\* the MRR and cohort computation over the snapshots of a later year
SpecLate == InitLate /\ [][Next]_vars

\* the cohorts of the current table
Cohorts == {cohort_start_date(subscriptions, c) : c \in CustomerIds(subscriptions)}

\* the customers whose earliest subscription started in the cohort's month
CohortMembers(cohort) ==
    {c \in CustomerIds(subscriptions) :
        /\ \A s \in Rows : s.customer_id = c => DATE(s.start_date) >= cohort
        /\ \E u \in Rows : /\ u.customer_id = c
                           /\ DATE(u.start_date) < cohort + 32}

\* C25: every row of the cohort output has period_number in 0..12, no period
\* beyond 12 being emitted; customers_in_cohort is the same in every row of a
\* cohort, the number of its customers; active_customers <= customers_in_cohort,
\* so that retention_rate lies in [0, 1].
C25_CohortWindow ==
    CohortComputed =>
        \A k \in 1..Len(cohort_records) :
            LET r == cohort_records[k]
            IN  /\ r.period_number \in 0..12
                /\ r.customers_in_cohort = Cardinality(CohortMembers(r.cohort_start_date))
                /\ \A j \in 1..Len(cohort_records) :
                     cohort_records[j].cohort_start_date = r.cohort_start_date
                        => cohort_records[j].customers_in_cohort = r.customers_in_cohort
                /\ r.active_customers >= 0
                /\ r.active_customers <= r.customers_in_cohort
                /\ r.retention_rate[1] >= 0
                /\ r.retention_rate[1] <= r.retention_rate[2]

\* C25 witness: a cohort whose thirteenth month has begun, with its row of
\* period 12, and a row with fewer active customers than the cohort has
C25_Witness ==
    /\ CohortComputed
    /\ \E c \in Cohorts : DATE_DIFF_MONTH(DATE_TRUNC_MONTH(today), c) = 13
    /\ \E k \in 1..Len(cohort_records) : cohort_records[k].period_number = 12
    /\ \E k \in 1..Len(cohort_records) :
         /\ cohort_records[k].active_customers < cohort_records[k].customers_in_cohort
         /\ cohort_records[k].customers_in_cohort = 2

----------------------------------------------------------------------------
(* Claims about the steps of one clock's worker *)

\* the advance calls of a worker, in the order it issued them
AdvanceCalls(t) == SelectSeq(Calls(t), LAMBDA c : c.op = "advance")

\* thirty days, in seconds
ThirtyDays == 30 * 86400

\* C26: within one clock's worker the advance calls are issued for the months
\* 1, 2, ..., months_to_advance in that order, the call of a month only after
\* the advance call and the cancellations of the month before have returned or
\* failed, with the target times initial + k * 30 days; when the worker returns
\* it has issued months_to_advance advance calls and its target time is
\* initial + months_to_advance * 30 days, also when an advance call failed.
C26_SequentialSteps ==
    TasksPrepared =>
        \A t \in Tasks :
            LET initial == clock_tasks[t].test_clock.frozen_time
                adv == AdvanceCalls(t)
            IN  /\ \A k \in 1..Len(adv) :
                     /\ adv[k].month = k
                     /\ adv[k].frozen_time = initial + k * ThirtyDays
                /\ Len(adv) <= clock_tasks[t].months_to_advance
                /\ \A a, b \in 1..Len(Calls(t)) :
                     a < b =>
                        /\ Calls(t)[a].month <= Calls(t)[b].month
                        /\ Calls(t)[b].op = "advance"
                              => Calls(t)[a].month < Calls(t)[b].month
                /\ \A k \in 1..Len(Calls(t)) :
                     Calls(t)[k].op = "cancel" =>
                        /\ Advanced(t, Calls(t)[k].month)
                        /\ Calls(t)[k].frozen_time
                              = initial + Calls(t)[k].month * ThirtyDays
                /\ workers[t].pc \in {"sleep", "advance"} =>
                     workers[t].advance_month
                        = Len(adv) + (IF workers[t].pc = "advance" THEN 1 ELSE 0)
                /\ WorkerReturned(t) =>
                     /\ Len(adv) = clock_tasks[t].months_to_advance
                     /\ workers[t].current_time
                           = initial + clock_tasks[t].months_to_advance * ThirtyDays

\* C26 witness: a worker has returned after three months whose first advance
\* call failed and whose second month held a cancellation
C26_Witness ==
    /\ TasksPrepared
    /\ \E t \in Tasks :
         /\ WorkerReturned(t)
         /\ clock_tasks[t].months_to_advance = 3
         /\ ~Advanced(t, 1)
         /\ Advanced(t, 2)
         /\ Advanced(t, 3)
         /\ \E k \in 1..Len(Calls(t)) :
              Calls(t)[k].op = "cancel" /\ Calls(t)[k].month = 2

----------------------------------------------------------------------------
(* Claims about churn and activity within one month *)

\* the subscriptions the specification's predicate makes active in the month
ActiveIn(M_start) ==
    {j \in 1..Len(subscriptions) : ActiveInMonth(subscriptions[j], M_start)}

CustomersOf(keep) == {subscriptions[j].customer_id : j \in keep}

\* C27 as stated: in every month bucket M the subscriptions counted as churned
\* are disjoint from those counted as active, a subscription canceled in
\* [M_start, M_end) adding nothing to total_mrr(M) nor to active_customers(M),
\* and no customer churned in M is among the active customers that churn_rate
\* divides by.
C27_ChurnedNotActive ==
    MrrComputed =>
        \A k \in 1..Len(MonthSeq) :
            LET M == MonthSeq[k]
            IN  /\ CanceledIn(M) \cap ActiveIn(M) = {}
                /\ Bucket(k).total_mrr =
                      SumAmount(subscriptions, ActiveIn(M) \ CanceledIn(M))
                /\ CustomersOf(CanceledIn(M)) \cap CustomersOf(ActiveIn(M)) = {}

\* C27 amended: the subscriptions counted as churned in M are disjoint from
\* those counted as active, total_mrr(M) and active_customers(M) are the
\* aggregates over the subscriptions not canceled in M, and a customer churned
\* in M is among the active customers only through another subscription of
\* theirs that is active in M.
C27_ChurnedSubscriptionsNotActive ==
    MrrComputed =>
        \A k \in 1..Len(MonthSeq) :
            LET M == MonthSeq[k]
                b == Bucket(k)
            IN  /\ CanceledIn(M) \cap ActiveIn(M) = {}
                /\ \A j \in CanceledIn(M) : ~ was_active_in_month(subscriptions[j], M)
                /\ b.total_mrr = SumAmount(subscriptions, ActiveIn(M) \ CanceledIn(M))
                /\ b.active_customers =
                      Cardinality(CustomersOf(ActiveIn(M) \ CanceledIn(M)))
                /\ \A c \in CustomersOf(CanceledIn(M)) \cap CustomersOf(ActiveIn(M)) :
                      \E j \in ActiveIn(M) \ CanceledIn(M) :
                          subscriptions[j].customer_id = c

\* C27 witness: an emitted month in which a customer canceled one subscription
\* and is active through another one, churn_rate being 1
C27_Witness ==
    /\ MrrComputed
    /\ \E k \in 1..Len(mrr_records) :
         LET M == mrr_records[k].month_start_date
         IN  /\ CustomersOf(CanceledIn(M)) \cap CustomersOf(ActiveIn(M)) # {}
             /\ mrr_records[k].churned_customers = 1
             /\ mrr_records[k].active_customers = 1
             /\ mrr_records[k].churn_rate = Frac(1, 1)

----------------------------------------------------------------------------
(* Claims about LAG over the emitted rows *)

\* C28: suppressing empty buckets never changes growth_rate: when an emitted
\* bucket M has total_mrr > 0 and M+1 is within the generated months, M+1 is
\* emitted too; so the previous-row value LAG yields over the emitted rows is
\* the total of the calendar month right before, or is 0 with that calendar
\* month's total being 0 as well, and there is none for the first generated
\* month only.
C28_SuppressionKeepsGrowth ==
    MrrComputed =>
        LET result == mrr_query(subscriptions, today)
            last == MonthSeq[Len(MonthSeq)]
        IN  /\ \A k \in 1..Len(mrr_records) :
                 LET r == mrr_records[k]
                 IN  (r.total_mrr > 0 /\ r.month_start_date # last)
                        => (r.month_start_date + 32) \in EmittedMonths
            /\ \A k \in 1..Len(mrr_records) :
                 LET M == mrr_records[k].month_start_date
                     lag == result[k].prev_month_mrr
                 IN  IF k = 1
                     THEN lag = NULL /\ M = MonthSeq[1]
                     ELSE /\ lag = Some(mrr_records[k - 1].total_mrr)
                          /\ Val(lag) = PrevTotal(M)
                          /\ (M - 32) \notin EmittedMonths => Val(lag) = 0

\* C28 witness: a bucket emitted after a suppressed one, with MRR of its own
C28_Witness ==
    /\ MrrComputed
    /\ \E k \in 2..Len(mrr_records) :
         /\ mrr_records[k].month_start_date
               > mrr_records[k - 1].month_start_date + 32
         /\ mrr_records[k].total_mrr > 0
         /\ mrr_records[k].growth_rate = Zero

----------------------------------------------------------------------------
(* Claims about the first period of a cohort *)

\* no subscription is canceled before it starts
CanceledAfterStart ==
    \A s \in Rows : s.canceled_at = NULL \/ Val(s.canceled_at) >= s.start_date

\* C29: when every subscription has canceled_at >= start_date, the period-0 row
\* of every cohort has active_customers = customers_in_cohort and
\* retention_rate 1.0, also for customers who signed up and canceled within the
\* cohort's month.
C29_PeriodZeroRetention ==
    (CohortComputed /\ CanceledAfterStart) =>
        \A c \in Cohorts :
            /\ Cardinality(CohortRow(c, 0)) = 1
            /\ \A r \in CohortRow(c, 0) :
                 /\ r.active_customers = r.customers_in_cohort
                 /\ r.customers_in_cohort = Cardinality(CohortMembers(c))
                 /\ r.retention_rate = Frac(1, 1)

\* C29 witness: a cohort all of whose customers signed up and canceled within
\* the cohort's month, and its later period without active customers
C29_Witness ==
    /\ CohortComputed
    /\ CanceledAfterStart
    /\ \E c \in Cohorts :
         /\ \A s \in Rows :
              DATE_TRUNC_MONTH(DATE(s.start_date)) = c =>
                 /\ s.canceled_at # NULL
                 /\ DATE_TRUNC_MONTH(DATE(Val(s.canceled_at))) = c
         /\ \E r \in CohortRow(c, 0) : r.retention_rate = Frac(1, 1)
         /\ \E r \in CohortRow(c, 1) : r.active_customers = 0

----------------------------------------------------------------------------
(* Claims about the assignment of customers to clocks *)

\* the creation loop has begun
CreationBegun == sim_pc \in {"months", "customers", "created", "advancing", "returned"}

\* the created customers that sit on a clock
CustomersOnClock(id) ==
    {k \in 1..Len(created_data.customers) :
        created_data.customers[k].test_clock.id = id}

\* position of a scenario among the scenarios of its acquisition month
PositionInMonth(sc) ==
    Cardinality({k \in 1..Len(scenarios) :
        /\ scenarios[k].acquisition_month = sc.acquisition_month
        /\ scenarios[k].customer_index < sc.customer_index})

\* C30: the clocks being created from the same scenario list, every scenario of
\* an acquisition month m is assigned the clock of index i // 3, which is below
\* the number of clocks of m, so that the skip for want of clocks never
\* happens; every clock carries at most 3 customers, all of its acquisition
\* month; and len(customers) = len(subscriptions) = sum of stats = sum of the
\* sizes of by_month.
C30_ClockAssignment ==
    CreationBegun =>
        /\ \A k \in 1..Len(creations) : creations[k].customer # "skipped"
        /\ \A k \in 1..Len(scenarios) :
             PositionInMonth(scenarios[k]) \div 3
                < Len(test_clocks[scenarios[k].acquisition_month])
        /\ \A k \in 1..Len(created_data.customers) :
             LET c == created_data.customers[k]
             IN  /\ c.clock_index = PositionInMonth(c.scenario) \div 3
                 /\ c.clock_index < Len(test_clocks[c.acquisition_month])
                 /\ c.test_clock = test_clocks[c.acquisition_month][c.clock_index + 1]
                 /\ c.acquisition_month = c.scenario.acquisition_month
                 /\ c.test_clock.id[1] = c.acquisition_month
        /\ \A id \in DOMAIN stripe_clocks : Cardinality(CustomersOnClock(id)) <= 3
        /\ Len(created_data.customers) = Len(created_data.subscriptions)
        /\ Len(created_data.customers) =
              created_data.stats.active + created_data.stats.canceled
                 + created_data.stats.past_due
        /\ Len(created_data.customers) =
              SumTo([n \in 1..MONTHS_OF_HISTORY |-> Len(created_data.by_month[n - 1])],
                    MONTHS_OF_HISTORY)

\* C30 witness: the creation has returned with a month of four customers, three
\* on its first clock and one on its second, and a customer of another month
C30_Witness ==
    /\ CreationReturned
    /\ \E m \in HistoryMonths :
         /\ Len(test_clocks[m]) = 2
         /\ Cardinality(CustomersOnClock(<<m, 1>>)) = 3
         /\ Cardinality(CustomersOnClock(<<m, 2>>)) = 1
    /\ \E k \in 1..Len(created_data.customers) :
         created_data.customers[k].acquisition_month = MONTHS_OF_HISTORY - 1

====
